---- MODULE Spec2Model ----
(***************************************************************************)
(* dft (depth-first-thinking): the tree of nodes, the tree operations of   *)
(* data/operations.ts and the list-cursor session of tui/app.ts.           *)
(*                                                                         *)
(* The tree is kept as a heap: tree[id] is the node object with that id,   *)
(* its children field the sequence of the ids of its child objects.  A     *)
(* title is a sequence of one-character strings.                           *)
(***************************************************************************)
EXTENDS Integers, Sequences, FiniteSets, TLC

VARIABLES
    tree,             \* id -> node object, the nodes reachable from the root
    nextId,           \* the next fresh id (uuidv4 never repeats)
    opLog,            \* the last tree operation applied, its arguments and result
    modified_at,      \* project.modified_at
    navigationStack,  \* AppState.navigationStack: the ids of the parents dived into
    selectedIndex,    \* AppState.selectedIndex (0-based)
    modalState,       \* AppState.modalState, NULL when no modal is open
    feedbackMessage,  \* AppState.feedbackMessage
    timers,           \* the pending setTimeout callbacks of showFeedback, oldest first
    tasks,            \* the async handlers suspended in `await this.save()`
    isRunning,        \* TUIApp.isRunning
    rendererStopped,  \* renderer.stop() was called: no more key events
    tmpFile,          \* the content of <project>.json.tmp, NONE when absent
    projectFile,      \* the content of <project>.json
    terminalRestored, \* restoreTerminal() was called by quit
    startResolved,    \* the promise returned by start() is resolved
    navHist,          \* the navigation operations that succeeded since the last other
                      \* key press (the last two), each with the position before it
    cli,              \* the last `dft` command line and the command it was dispatched to
    loadLog           \* the file last given to loadProject and what loadProject did

treeVars == <<tree, nextId>>
sessionVars == <<modified_at, navigationStack, selectedIndex, modalState, feedbackMessage,
                 timers, tasks, isRunning, rendererStopped, tmpFile, projectFile,
                 terminalRestored, startResolved, navHist, cli, loadLog>>
vars == <<tree, nextId, opLog, modified_at, navigationStack, selectedIndex, modalState,
          feedbackMessage, timers, tasks, isRunning, rendererStopped, tmpFile,
          projectFile, terminalRestored, startResolved, navHist, cli, loadLog>>

-----------------------------------------------------------------------------
(* Bounds *)

MaxId == 3          \* ids 1..MaxId can be generated; 0 is the root

NULL == "null"
RootId == 0
\* no node: null where a Node is expected, -1 where an index is
NoNode == -1

\* the values new Date().toISOString() can give: any of them at any call
Times == {"t1", "t2"}

-----------------------------------------------------------------------------
(* Strings *)

RECURSIVE TrimStart(_)
TrimStart(s) == IF s # <<>> /\ Head(s) = " " THEN TrimStart(Tail(s)) ELSE s

RECURSIVE TrimEnd(_)
TrimEnd(s) ==
    IF s # <<>> /\ s[Len(s)] = " " THEN TrimEnd(SubSeq(s, 1, Len(s) - 1)) ELSE s

\* String.prototype.trim
Trim(s) == TrimEnd(TrimStart(s))

-----------------------------------------------------------------------------
(* Tree operations (data/operations.ts) *)

\* created_at is written here and never read or written again: it is left out
createNode(title) ==
    [title |-> Trim(title), status |-> "open", children |-> <<>>, completed_at |-> NULL]

\* parent.children.unshift(createNode(title))
addChildNodeFirst(t, parent, id, title) ==
    [x \in DOMAIN t \cup {id} |->
        IF x = id THEN createNode(title)
        ELSE IF x = parent THEN [t[x] EXCEPT !.children = <<id>> \o @]
        ELSE t[x]]

\* parent.children.push(createNode(title)); id is the uuid generated
addChildNode(t, parent, id, title) ==
    [x \in DOMAIN t \cup {id} |->
        IF x = id THEN createNode(title)
        ELSE IF x = parent THEN [t[x] EXCEPT !.children = Append(@, id)]
        ELSE t[x]]

\* node.title = newTitle, untrimmed
editNodeTitleNoTrim(t, n, newTitle) == [t EXCEPT ![n].title = newTitle]

editNodeTitle(t, n, newTitle) == [t EXCEPT ![n].title = Trim(newTitle)]

\* a markNodeDone that stops at the children of the node
markNodeDoneShallow(t, n, now) ==
    [x \in DOMAIN t |->
        IF x = n \/ (\E i \in 1..Len(t[n].children) : t[n].children[i] = x)
        THEN [t[x] EXCEPT !.status = "done", !.completed_at = now]
        ELSE t[x]]

RECURSIVE markNodeDone(_, _, _)
RECURSIVE markEachDone(_, _, _)
\* the loop `for (const child of node.children) markNodeDone(child)`
markEachDone(t, kids, now) ==
    IF kids = <<>> THEN t
    ELSE markEachDone(markNodeDone(t, Head(kids), now), Tail(kids), now)

markNodeDone(t, n, now) ==
    markEachDone([t EXCEPT ![n].status = "done", ![n].completed_at = now],
                 t[n].children, now)

\* a markNodeOpen that reopens the children too
markNodeOpenCascade(t, n) ==
    [x \in DOMAIN t |->
        IF x = n \/ (\E i \in 1..Len(t[n].children) : t[n].children[i] = x)
        THEN [t[x] EXCEPT !.status = "open", !.completed_at = NULL]
        ELSE t[x]]

\* a markNodeOpen that leaves completed_at as it was
markNodeOpenKeepStamp(t, n) == [t EXCEPT ![n].status = "open"]

markNodeOpen(t, n) == [t EXCEPT ![n].status = "open", ![n].completed_at = NULL]

\* a toggleNodeStatus that marks done whatever the status
toggleNodeStatusAlwaysDone(t, n, now) == markNodeDone(t, n, now)

toggleNodeStatus(t, n, now) ==
    IF t[n].status = "open" THEN markNodeDone(t, n, now) ELSE markNodeOpen(t, n)

\* children.findIndex((c) => c.id === nodeId): 0 stands for -1
RECURSIVE FindIndexFrom(_, _, _)
FindIndexFrom(kids, id, i) ==
    IF i > Len(kids) THEN 0
    ELSE IF kids[i] = id THEN i
    ELSE FindIndexFrom(kids, id, i + 1)

findIndex(kids, id) == FindIndexFrom(kids, id, 1)

\* children.splice(index): everything from index on is removed
spliceRest(kids, index) == SubSeq(kids, 1, index - 1)

\* children.splice(index, 1)
splice(kids, index) == SubSeq(kids, 1, index - 1) \o SubSeq(kids, index + 1, Len(kids))

\* the ids of the objects reachable from n through children
RECURSIVE Reach(_, _)
RECURSIVE ReachEach(_, _)
ReachEach(t, kids) ==
    IF kids = <<>> THEN {} ELSE Reach(t, Head(kids)) \cup ReachEach(t, Tail(kids))
Reach(t, n) == {n} \cup ReachEach(t, t[n].children)

\* the objects no longer reachable from the root are dropped from the heap
Collect(t) == [x \in Reach(t, RootId) |-> t[x]]

deleteNode(t, parent, nodeId) ==
    LET index == findIndex(t[parent].children, nodeId) IN
    IF index = 0 THEN [tree |-> t, ret |-> FALSE]
    ELSE [tree |-> Collect([t EXCEPT ![parent].children = splice(@, index)]),
          ret |-> TRUE]

RECURSIVE findNode(_, _, _)
RECURSIVE findNodeIn(_, _, _)
\* the loop `for (const child of root.children)` of findNode
findNodeIn(t, kids, id) ==
    IF kids = <<>> THEN NoNode
    ELSE LET found == findNode(t, Head(kids), id) IN
         IF found # NoNode THEN found ELSE findNodeIn(t, Tail(kids), id)

findNode(t, root, id) ==
    IF root = id THEN root ELSE findNodeIn(t, t[root].children, id)

\* a findParent that looks at the children of the root only
findParentDirect(t, root, childId) ==
    IF findIndex(t[root].children, childId) # 0 THEN root ELSE NoNode

RECURSIVE findParent(_, _, _)
RECURSIVE findParentIn(_, _, _, _)
\* the loop `for (const child of root.children)` of findParent
findParentIn(t, root, kids, childId) ==
    IF kids = <<>> THEN NoNode
    ELSE IF Head(kids) = childId THEN root
    ELSE LET found == findParent(t, Head(kids), childId) IN
         IF found # NoNode THEN found ELSE findParentIn(t, root, Tail(kids), childId)

findParent(t, root, childId) == findParentIn(t, root, t[root].children, childId)

\* the null of getNodePath; a path found has at least the root
NoPath == <<>>

RECURSIVE getNodePath(_, _, _)
RECURSIVE getNodePathIn(_, _, _, _)
\* the loop `for (const child of root.children)` of getNodePath
getNodePathIn(t, root, kids, targetId) ==
    IF kids = <<>> THEN NoPath
    ELSE LET path == getNodePath(t, Head(kids), targetId) IN
         IF path # NoPath THEN <<root>> \o path
         ELSE getNodePathIn(t, root, Tail(kids), targetId)

getNodePath(t, root, targetId) ==
    IF root = targetId THEN <<root>> ELSE getNodePathIn(t, root, t[root].children, targetId)

\* a countDescendants that counts the children only
countDescendantsShallow(t, n) == Len(t[n].children)

RECURSIVE countDescendants(_, _)
RECURSIVE countEach(_, _)
\* the loop `count += countDescendants(child)`
countEach(t, kids) ==
    IF kids = <<>> THEN 0 ELSE countDescendants(t, Head(kids)) + countEach(t, Tail(kids))

countDescendants(t, n) == Len(t[n].children) + countEach(t, t[n].children)

-----------------------------------------------------------------------------
(* Title validation (utils/validation.ts) *)

MaxTitleLen == 200

ErrEmpty == "Title cannot be empty or contain only whitespace."
ErrLong == "Title must be 200 characters or less."

\* a validateTitle without the upper limit
validateTitleNoLimit(title) ==
    IF Len(Trim(title)) < 1 THEN [isValid |-> FALSE, error |-> ErrEmpty]
    ELSE [isValid |-> TRUE, error |-> NULL]

validateTitle(title) ==
    LET trimmed == Trim(title) IN
    IF Len(trimmed) < 1 THEN [isValid |-> FALSE, error |-> ErrEmpty]
    ELSE IF Len(trimmed) > MaxTitleLen THEN [isValid |-> FALSE, error |-> ErrLong]
    ELSE [isValid |-> TRUE, error |-> NULL]

-----------------------------------------------------------------------------
(* List-cursor navigation (tui/navigation.ts of the list-based session).    *)
(* A state s is the record of the session's variables.                     *)

initializeNavigation(s) == [s EXCEPT !.navigationStack = <<>>, !.selectedIndex = 0]

getCurrentParent(s) ==
    IF s.navigationStack = <<>> THEN NoNode
    ELSE findNode(s.tree, RootId, s.navigationStack[Len(s.navigationStack)])

getCurrentList(s) ==
    LET parent == getCurrentParent(s) IN
    IF parent = NoNode THEN s.tree[RootId].children ELSE s.tree[parent].children

getSelectedNode(s) ==
    LET list == getCurrentList(s) IN
    IF s.selectedIndex >= 0 /\ s.selectedIndex < Len(list)
    THEN list[s.selectedIndex + 1] ELSE NoNode

Clamp(i, len) == IF len = 0 THEN 0 ELSE IF i < 0 THEN 0 ELSE IF i > len - 1 THEN len - 1 ELSE i

ensureValidSelection(s) ==
    [s EXCEPT !.selectedIndex = Clamp(s.selectedIndex, Len(getCurrentList(s)))]

adjustSelectionAfterDelete(s, deletedIndex) ==
    LET moved == IF deletedIndex <= s.selectedIndex /\ s.selectedIndex > 0
                 THEN [s EXCEPT !.selectedIndex = s.selectedIndex - 1] ELSE s
    IN ensureValidSelection(moved)

Ok(s) == [s |-> s, success |-> TRUE, feedbackMessage |-> NULL]
Fail(s, message) == [s |-> s, success |-> FALSE, feedbackMessage |-> message]

moveUp(s) ==
    IF Len(getCurrentList(s)) = 0 THEN Fail(s, "List is empty")
    ELSE IF s.selectedIndex = 0 THEN Fail(s, "At top")
    ELSE Ok([s EXCEPT !.selectedIndex = s.selectedIndex - 1])

moveDown(s) ==
    IF Len(getCurrentList(s)) = 0 THEN Fail(s, "List is empty")
    ELSE IF s.selectedIndex = Len(getCurrentList(s)) - 1 THEN Fail(s, "At bottom")
    ELSE Ok([s EXCEPT !.selectedIndex = s.selectedIndex + 1])

diveIn(s) ==
    LET selected == getSelectedNode(s) IN
    IF selected = NoNode THEN Fail(s, "Nothing selected")
    ELSE Ok([s EXCEPT !.navigationStack = Append(@, selected), !.selectedIndex = 0])

goBack(s) ==
    IF s.navigationStack = <<>> THEN Fail(s, "At root")
    ELSE Ok([s EXCEPT !.navigationStack = SubSeq(@, 1, Len(@) - 1), !.selectedIndex = 0])

-----------------------------------------------------------------------------
(* The session controller (tui/app.ts, class TUIApp) *)

NoModal == [type |-> "none", inputValue |-> <<>>, selectedButton |-> 0, errorMessage |-> NULL]

ErrChars == "Only letters, numbers, spaces, - and _ allowed"

Letters == {"a", "d", "e", "h", "j", "k", "l", "n", "q", "r", "x"}
Upper == {"A"}
ToLower(c) == IF c = "A" THEN "a" ELSE c
\* control characters, charCodeAt(0) < 32
ControlChars == {"ESC", "CR", "LF", "TAB"}

\* a sanitizeInputChar that lets every character through as typed
sanitizeInputCharAny(char) == char

\* null is NULL
sanitizeInputChar(char) ==
    IF char \in Letters \cup Upper THEN ToLower(char)
    ELSE IF char \in {"0", " ", "_", "-"} THEN char
    ELSE NULL

\* updateDisplay: the selection is clamped, the rest writes the screen
updateDisplay(s) == ensureValidSelection(s)

\* the message is set and shown, then its expiry is scheduled
showFeedback(s, message) ==
    [updateDisplay([s EXCEPT !.feedbackMessage = message])
        EXCEPT !.timers = Append(@, message)]

\* a callback that leaves the message on the screen
feedbackExpiredKeeps(s, message) == s

\* the callback of showFeedback's setTimeout, closed over message
feedbackExpired(s, message) ==
    IF s.feedbackMessage = message
    THEN updateDisplay([s EXCEPT !.feedbackMessage = NULL])
    ELSE s

\* a handleNavigation that shows no feedback
handleNavigationSilent(s, result) == updateDisplay(result.s)

handleNavigation(s, result) ==
    updateDisplay(IF ~result.success /\ result.feedbackMessage # NULL
                  THEN showFeedback(result.s, result.feedbackMessage)
                  ELSE result.s)

openModal(s, type) ==
    updateDisplay([s EXCEPT !.modalState =
        [type |-> type, inputValue |-> <<>>, selectedButton |-> 0, errorMessage |-> NULL]])

\* an openEditModal that does not look for the selected node
openEditModalUnchecked(s) ==
    updateDisplay([s EXCEPT !.modalState =
        [type |-> "edit", inputValue |-> <<>>, selectedButton |-> 0, errorMessage |-> NULL]])

openEditModal(s) ==
    LET selected == getSelectedNode(s) IN
    IF selected = NoNode THEN showFeedback(s, "Nothing selected")
    ELSE updateDisplay([s EXCEPT !.modalState =
            [type |-> "edit", inputValue |-> s.tree[selected].title,
             selectedButton |-> 0, errorMessage |-> NULL]])

\* an openDeleteModal that opens on the confirm button
openDeleteModalConfirm(s) ==
    LET selected == getSelectedNode(s) IN
    IF selected = NoNode THEN showFeedback(s, "Nothing selected")
    ELSE updateDisplay([s EXCEPT !.modalState =
            [type |-> "delete", inputValue |-> <<>>,
             selectedButton |-> 0, errorMessage |-> NULL]])

openDeleteModal(s) ==
    LET selected == getSelectedNode(s) IN
    IF selected = NoNode THEN showFeedback(s, "Nothing selected")
    ELSE updateDisplay([s EXCEPT !.modalState =
            [type |-> "delete", inputValue |-> <<>>,
             selectedButton |-> 1, errorMessage |-> NULL]])

closeModal(s) == updateDisplay([s EXCEPT !.modalState = NoModal])

\* save() up to its first await: saveProject has called mkdir and is suspended
save(s, op, wasDone) ==
    [s EXCEPT !.tasks = Append(@, [op |-> op, pc |-> "mkdir", json |-> <<>>,
                                    wasDone |-> wasDone])]

\* a getParentForNewItem that always answers the root
getParentForNewItemRoot(s) == RootId

getParentForNewItem(s) ==
    LET parent == getCurrentParent(s) IN
    IF parent = NoNode THEN RootId ELSE parent

submitNewNode(s) ==
    IF s.modalState.type = "none" THEN s
    ELSE
    LET title == s.modalState.inputValue
        validation == validateTitle(title)
    IN
    IF ~validation.isValid
    THEN updateDisplay([s EXCEPT !.modalState.errorMessage = validation.error])
    ELSE save([s EXCEPT !.tree = addChildNode(s.tree, getParentForNewItem(s), s.nextId, title),
                        !.nextId = s.nextId + 1],
              "new", FALSE)

\* a submitEditNode that stores the input without asking validateTitle
submitEditNodeNoValidate(s) ==
    IF s.modalState.type = "none" THEN s
    ELSE
    LET title == s.modalState.inputValue
        selected == getSelectedNode(s)
    IN
    IF selected = NoNode THEN closeModal(s)
    ELSE save([s EXCEPT !.tree = editNodeTitle(s.tree, selected, title)], "edit", FALSE)

submitEditNode(s) ==
    IF s.modalState.type = "none" THEN s
    ELSE
    LET title == s.modalState.inputValue
        validation == validateTitle(title)
        selected == getSelectedNode(s)
    IN
    IF ~validation.isValid
    THEN updateDisplay([s EXCEPT !.modalState.errorMessage = validation.error])
    ELSE IF selected = NoNode THEN closeModal(s)
    ELSE save([s EXCEPT !.tree = editNodeTitle(s.tree, selected, title)], "edit", FALSE)

\* a submitDelete that leaves the selection where it was
submitDeleteNoAdjust(s) ==
    LET selected == getSelectedNode(s) IN
    IF selected = NoNode THEN closeModal(s)
    ELSE save([s EXCEPT !.tree = deleteNode(s.tree, getParentForNewItem(s), selected).tree],
              "delete", FALSE)

\* a submitDelete that reads the index once the node is gone and the cursor clamped
submitDeleteIndexAfter(s) ==
    LET selected == getSelectedNode(s) IN
    IF selected = NoNode THEN closeModal(s)
    ELSE
    LET parent == getParentForNewItem(s)
        deleted == ensureValidSelection(
                      [s EXCEPT !.tree = deleteNode(s.tree, parent, selected).tree])
    IN save(adjustSelectionAfterDelete(deleted, deleted.selectedIndex + 1), "delete", FALSE)

\* a submitDelete that removes the node whose list is shown, not the selected one
submitDeleteParent(s) ==
    LET selected == getSelectedNode(s) IN
    IF selected = NoNode THEN closeModal(s)
    ELSE
    LET parent == getParentForNewItem(s)
        kept == DOMAIN s.tree \ Reach(s.tree, parent)
    IN save([s EXCEPT !.tree = [x \in kept |->
                                   [s.tree[x] EXCEPT !.children = SelectSeq(@, LAMBDA c : c # parent)]],
                      !.navigationStack = <<>>, !.selectedIndex = 0],
            "delete", FALSE)

\* a submitDelete that, inside a task, removes that task and stays where it was
submitDeleteOnStack(s) ==
    LET selected == getSelectedNode(s) IN
    IF selected = NoNode THEN closeModal(s)
    ELSE
    LET onStack == s.navigationStack # <<>>
        node == IF onStack THEN s.navigationStack[Len(s.navigationStack)] ELSE selected
        parent == IF onStack THEN findParent(s.tree, RootId, node) ELSE RootId
    IN save([s EXCEPT !.tree = deleteNode(s.tree, parent, node).tree], "delete", FALSE)

submitDelete(s) ==
    LET selected == getSelectedNode(s) IN
    IF selected = NoNode THEN closeModal(s)
    ELSE
    LET parent == getParentForNewItem(s)
        deletedIndex == s.selectedIndex
        deleted == [s EXCEPT !.tree = deleteNode(s.tree, parent, selected).tree]
    IN save(adjustSelectionAfterDelete(deleted, deletedIndex), "delete", FALSE)

\* a toggleDone that reports at once, without a save
toggleDoneNoSave(s, now) ==
    LET selected == getSelectedNode(s) IN
    IF selected = NoNode THEN showFeedback(s, "Nothing selected")
    ELSE updateDisplay(showFeedback(
            [s EXCEPT !.tree = toggleNodeStatus(s.tree, selected, now)],
            IF s.tree[selected].status = "done" THEN "Marked open" ELSE "Done"))

toggleDone(s, now) ==
    LET selected == getSelectedNode(s) IN
    IF selected = NoNode THEN showFeedback(s, "Nothing selected")
    ELSE save([s EXCEPT !.tree = toggleNodeStatus(s.tree, selected, now)],
              "toggle", s.tree[selected].status = "done")

quit(s) == save(s, "quit", FALSE)

\* a handleModalSubmit that submits whichever button is selected
handleModalSubmitNoCancel(s) ==
    CASE s.modalState.type = "new" -> submitNewNode(s)
      [] s.modalState.type = "edit" -> submitEditNode(s)
      [] s.modalState.type = "delete" -> submitDelete(s)
      [] OTHER -> s

handleModalSubmit(s) ==
    IF s.modalState.type = "none" THEN s
    ELSE IF s.modalState.selectedButton = 1 THEN closeModal(s)
    ELSE CASE s.modalState.type = "new" -> submitNewNode(s)
           [] s.modalState.type = "edit" -> submitEditNode(s)
           [] s.modalState.type = "delete" -> submitDelete(s)
           [] OTHER -> s

\* key.name?.toLowerCase() || key.sequence
keyName(key) == IF key.name # NULL THEN key.name ELSE key.sequence[1]

\* a handleModalKeyPress that treats the help modal like the others
handleModalKeyPressNoHelp(s, key) ==
    LET modal == s.modalState
        name == keyName(key)
        isInput == modal.type = "new" \/ modal.type = "edit"
    IN
    IF modal.type = "none" THEN s
    ELSE IF name = "escape" THEN closeModal(s)
    ELSE IF name = "tab"
    THEN updateDisplay([s EXCEPT !.modalState.selectedButton =
                            IF modal.selectedButton = 0 THEN 1 ELSE 0])
    ELSE IF name \in {"return", "enter"} THEN handleModalSubmit(s)
    ELSE IF name \in {"backspace", "delete"}
    THEN IF isInput
         THEN updateDisplay([s EXCEPT
                !.modalState.inputValue = SubSeq(@, 1, Len(@) - 1),
                !.modalState.errorMessage = NULL])
         ELSE s
    ELSE IF isInput /\ Len(key.sequence) = 1 /\ key.sequence[1] \notin ControlChars
    THEN LET sanitized == sanitizeInputChar(key.sequence[1]) IN
         updateDisplay(IF sanitized # NULL
                       THEN [s EXCEPT !.modalState.inputValue = Append(@, sanitized),
                                      !.modalState.errorMessage = NULL]
                       ELSE [s EXCEPT !.modalState.errorMessage = ErrChars])
    ELSE s

handleModalKeyPress(s, key) ==
    LET modal == s.modalState
        name == keyName(key)
        isInput == modal.type = "new" \/ modal.type = "edit"
    IN
    IF modal.type = "none" THEN s
    ELSE IF modal.type = "help" THEN closeModal(s)
    ELSE IF name = "escape" THEN closeModal(s)
    ELSE IF name = "tab"
    THEN updateDisplay([s EXCEPT !.modalState.selectedButton =
                            IF modal.selectedButton = 0 THEN 1 ELSE 0])
    ELSE IF name \in {"return", "enter"} THEN handleModalSubmit(s)
    ELSE IF name \in {"backspace", "delete"}
    THEN IF isInput
         THEN updateDisplay([s EXCEPT
                !.modalState.inputValue = SubSeq(@, 1, Len(@) - 1),
                !.modalState.errorMessage = NULL])
         ELSE s
    ELSE IF isInput /\ Len(key.sequence) = 1 /\ key.sequence[1] \notin ControlChars
    THEN LET sanitized == sanitizeInputChar(key.sequence[1]) IN
         updateDisplay(IF sanitized # NULL
                       THEN [s EXCEPT !.modalState.inputValue = Append(@, sanitized),
                                      !.modalState.errorMessage = NULL]
                       ELSE [s EXCEPT !.modalState.errorMessage = ErrChars])
    ELSE s

\* a handleNavigationKeyPress in which up only redraws
handleNavigationKeyPressNoUp(s, key, now) ==
    LET name == keyName(key) IN
    CASE name \in {"up", "k"} -> updateDisplay(s)
      [] name \in {"down", "j"} -> handleNavigation(s, moveDown(s))
      [] name \in {"right", "l", "return", "enter", "space"} -> handleNavigation(s, diveIn(s))
      [] name \in {"left", "h"} -> handleNavigation(s, goBack(s))
      [] OTHER -> s

\* a handleNavigationKeyPress in which left moves to the first item of the list
handleNavigationKeyPressNoBack(s, key, now) ==
    LET name == keyName(key) IN
    CASE name \in {"up", "k"} -> handleNavigation(s, moveUp(s))
      [] name \in {"down", "j"} -> handleNavigation(s, moveDown(s))
      [] name \in {"right", "l", "return", "enter", "space"} -> handleNavigation(s, diveIn(s))
      [] name \in {"left", "h"} -> updateDisplay([s EXCEPT !.selectedIndex = 0])
      [] OTHER -> s

handleNavigationKeyPress(s, key, now) ==
    LET name == keyName(key) IN
    CASE name \in {"up", "k"} -> handleNavigation(s, moveUp(s))
      [] name \in {"down", "j"} -> handleNavigation(s, moveDown(s))
      [] name \in {"right", "l", "return", "enter", "space"} -> handleNavigation(s, diveIn(s))
      [] name \in {"left", "h"} -> handleNavigation(s, goBack(s))
      [] name = "n" -> openModal(s, "new")
      [] name = "e" -> openEditModal(s)
      [] name = "d" -> toggleDone(s, now)
      [] name = "x" -> openDeleteModal(s)
      [] name = "?" -> openModal(s, "help")
      [] name = "r" -> updateDisplay(s)
      [] name = "q" -> quit(s)
      [] OTHER -> s

\* a handleKeyPress that does not look at the modal
handleKeyPressNoRouting(s, key, now) == handleNavigationKeyPress(s, key, now)

handleKeyPress(s, key, now) ==
    IF s.modalState.type # "none" THEN handleModalKeyPress(s, key)
    ELSE handleNavigationKeyPress(s, key, now)

-----------------------------------------------------------------------------
(* The completion marker of a listed task (TUIApp.getStatusDisplay) *)

\* an allDescendantsDone that looks at the children only
allChildrenDone(t, n) == \A i \in 1..Len(t[n].children) : t[t[n].children[i]].status = "done"

RECURSIVE allDescendantsDone(_, _)
RECURSIVE allDoneIn(_, _)
\* the loop `for (const child of node.children)` of allDescendantsDone
allDoneIn(t, kids) ==
    IF kids = <<>> THEN TRUE
    ELSE IF t[Head(kids)].status # "done" THEN FALSE
    ELSE IF ~allDescendantsDone(t, Head(kids)) THEN FALSE
    ELSE allDoneIn(t, Tail(kids))

allDescendantsDone(t, n) == allDoneIn(t, t[n].children)

getStatusDisplay(t, item) ==
    IF t[item].status # "done" THEN ""
    ELSE IF Len(t[item].children) = 0 THEN " (done)"
    ELSE IF allDescendantsDone(t, item) THEN " (done)"
    ELSE " (done, partial)"

-----------------------------------------------------------------------------
(* The session that focuses one node (tui/navigation.ts and the TUIApp that   *)
(* uses it): navigationStack is the path of ids from the root to the current  *)
(* node.  Its handlers that share a name with the list-cursor session's end   *)
(* in Focus.                                                                  *)

\* the id of the current node; NoNode where the code throws
getCurrentNode(s) ==
    findNode(s.tree, RootId, s.navigationStack[Len(s.navigationStack)])

getParentNode(s) ==
    IF Len(s.navigationStack) <= 1 THEN NoNode
    ELSE findNode(s.tree, RootId, s.navigationStack[Len(s.navigationStack) - 1])

getSiblingsFromState(s) ==
    LET parent == getParentNode(s) IN
    IF parent = NoNode THEN <<RootId>> ELSE s.tree[parent].children

\* the index from 0, -1 when the id is not among the siblings
getSiblingIndex(siblings, id) == findIndex(siblings, id) - 1

getPreviousSibling(siblings, id) ==
    LET index == getSiblingIndex(siblings, id) IN
    IF index <= 0 THEN NoNode ELSE siblings[index]

getNextSibling(siblings, id) ==
    LET index == getSiblingIndex(siblings, id) IN
    IF index = -1 \/ index >= Len(siblings) - 1 THEN NoNode ELSE siblings[index + 2]

moveToPreviousSibling(s) ==
    LET siblings == getSiblingsFromState(s)
        currentId == s.navigationStack[Len(s.navigationStack)]
        prevSibling == getPreviousSibling(siblings, currentId)
    IN
    IF Len(siblings) = 1 THEN Fail(s, "No siblings")
    ELSE IF prevSibling = NoNode THEN Fail(s, "No previous sibling")
    ELSE Ok([s EXCEPT !.navigationStack[Len(s.navigationStack)] = prevSibling])

moveToNextSibling(s) ==
    LET siblings == getSiblingsFromState(s)
        currentId == s.navigationStack[Len(s.navigationStack)]
        nextSibling == getNextSibling(siblings, currentId)
    IN
    IF Len(siblings) = 1 THEN Fail(s, "No siblings")
    ELSE IF nextSibling = NoNode THEN Fail(s, "No next sibling")
    ELSE Ok([s EXCEPT !.navigationStack[Len(s.navigationStack)] = nextSibling])

diveIntoChild(s) ==
    LET current == getCurrentNode(s) IN
    IF current = NoNode THEN Ok(s)
    ELSE IF Len(s.tree[current].children) = 0 THEN Fail(s, "No children")
    ELSE Ok([s EXCEPT !.navigationStack = Append(@, s.tree[current].children[1])])

goToParent(s) ==
    IF Len(s.navigationStack) <= 1 THEN Fail(s, "Already at root")
    ELSE Ok([s EXCEPT !.navigationStack = SubSeq(@, 1, Len(@) - 1)])

initializeNavigationFocus(s) == [s EXCEPT !.navigationStack = <<RootId>>]

\* navigationStack.indexOf(id), from 0, -1 when absent
indexOf(stack, id) == findIndex(stack, id) - 1

\* siblings is the array the caller passes, siblingIndex the index it found
handlePostDeleteNavigation(s, deletedNodeId, siblings, siblingIndex) ==
    LET deleteIndex == indexOf(s.navigationStack, deletedNodeId)
        sliced == IF deleteIndex # -1 THEN SubSeq(s.navigationStack, 1, deleteIndex)
                  ELSE s.navigationStack
        newIndex == IF siblingIndex > 0 THEN siblingIndex - 1 ELSE 0
        newSiblings == SelectSeq(siblings, LAMBDA x : x # deletedNodeId)
    IN
    IF Len(siblings) > 1 /\ newIndex < Len(newSiblings)
    THEN [s EXCEPT !.navigationStack = Append(sliced, newSiblings[newIndex + 1])]
    ELSE [s EXCEPT !.navigationStack = sliced]

showFeedbackFocus(s, message) ==
    [s EXCEPT !.feedbackMessage = message, !.timers = Append(@, message)]

handleNavigationFocus(s, result) ==
    IF ~result.success /\ result.feedbackMessage # NULL
    THEN showFeedbackFocus(result.s, result.feedbackMessage)
    ELSE result.s

openDeleteModalFocus(s) ==
    IF Len(s.navigationStack) = 1 THEN showFeedbackFocus(s, "Cannot delete root problem")
    ELSE [s EXCEPT !.modalState =
            [type |-> "delete", inputValue |-> <<>>, selectedButton |-> 1,
             errorMessage |-> NULL]]

closeModalFocus(s) == [s EXCEPT !.modalState = NoModal]

\* submitDelete up to its await: `siblings` is parent.children itself, the array
\* that deleteNode splices, so handlePostDeleteNavigation is given the siblings
\* that are left; siblingIndex was found before the deletion
submitDeleteFocus(s) ==
    LET currentNode == getCurrentNode(s)
        parent == findParent(s.tree, RootId, currentNode)
    IN
    IF currentNode = NoNode THEN s
    ELSE IF parent = NoNode
    THEN closeModalFocus(showFeedbackFocus(s, "Cannot delete root problem"))
    ELSE
    LET siblingIndex == getSiblingIndex(s.tree[parent].children, currentNode)
        deleted == [s EXCEPT !.tree = deleteNode(s.tree, parent, currentNode).tree]
        siblings == deleted.tree[parent].children
    IN save(handlePostDeleteNavigation(deleted, currentNode, siblings, siblingIndex),
            "deleteProblem", FALSE)

handleModalSubmitFocus(s) ==
    IF s.modalState.type = "none" THEN s
    ELSE IF s.modalState.selectedButton = 1 THEN closeModalFocus(s)
    ELSE IF s.modalState.type = "delete" THEN submitDeleteFocus(s)
    ELSE s

\* the keys of the delete modal
handleModalKeyPressFocus(s, key) ==
    LET name == keyName(key) IN
    IF s.modalState.type = "none" THEN s
    ELSE CASE name = "escape" -> closeModalFocus(s)
           [] name = "tab" ->
                [s EXCEPT !.modalState.selectedButton = IF @ = 0 THEN 1 ELSE 0]
           [] name \in {"return", "enter"} -> handleModalSubmitFocus(s)
           [] OTHER -> s

\* the keys of navigation and deletion
handleNavigationKeyPressFocus(s, key) ==
    LET name == keyName(key) IN
    CASE name \in {"up", "k"} -> handleNavigationFocus(s, moveToPreviousSibling(s))
      [] name \in {"down", "j"} -> handleNavigationFocus(s, moveToNextSibling(s))
      [] name \in {"right", "l"} -> handleNavigationFocus(s, diveIntoChild(s))
      [] name \in {"left", "h"} -> handleNavigationFocus(s, goToParent(s))
      [] name = "x" -> openDeleteModalFocus(s)
      [] OTHER -> s

handleKeyPressFocus(s, key) ==
    IF s.modalState.type # "none" THEN handleModalKeyPressFocus(s, key)
    ELSE handleNavigationKeyPressFocus(s, key)

-----------------------------------------------------------------------------
(* Saving (data/storage.ts saveProject, awaited by TUIApp.save) and the     *)
(* rest of each async handler, which runs when its save has settled         *)

\* JSON.stringify(project)
stringify(s) == [tree |-> s.tree, modified_at |-> s.modified_at, complete |-> TRUE]

\* what a failed Bun.write can leave in the temp file
Partial(doc) == [doc EXCEPT !.complete = FALSE]

\* quit without the try around renderer.stop(): its error ends the handler
afterSaveStopEscapes(s, task, saved, stopThrows) ==
    LET s1 == IF saved THEN s ELSE showFeedback(s, "Failed to save") IN
    CASE task.op = "new" ->
            showFeedback(closeModal(ensureValidSelection(s1)), "Created task")
      [] task.op = "edit" -> showFeedback(closeModal(s1), "Updated")
      [] task.op = "delete" -> showFeedback(closeModal(s1), "Deleted")
      [] task.op = "deleteProblem" ->
            showFeedbackFocus(closeModalFocus(s1), "Deleted problem")
      [] task.op = "toggle" ->
            updateDisplay(showFeedback(s1, IF task.wasDone THEN "Marked open" ELSE "Done"))
      [] task.op = "quit" ->
            IF stopThrows THEN s1
            ELSE [s1 EXCEPT !.rendererStopped = TRUE, !.terminalRestored = TRUE,
                            !.isRunning = FALSE]

\* the handlers after `await this.save()`; saved is FALSE when saveProject threw
\* and save() caught it
afterSave(s, task, saved, stopThrows) ==
    LET s1 == IF saved THEN s ELSE showFeedback(s, "Failed to save") IN
    CASE task.op = "new" ->
            showFeedback(closeModal(ensureValidSelection(s1)), "Created task")
      [] task.op = "edit" -> showFeedback(closeModal(s1), "Updated")
      [] task.op = "delete" -> showFeedback(closeModal(s1), "Deleted")
      [] task.op = "deleteProblem" ->
            showFeedbackFocus(closeModalFocus(s1), "Deleted problem")
      [] task.op = "toggle" ->
            updateDisplay(showFeedback(s1, IF task.wasDone THEN "Marked open" ELSE "Done"))
      [] task.op = "quit" ->
            [s1 EXCEPT !.rendererStopped = ~stopThrows, !.terminalRestored = TRUE,
                       !.isRunning = FALSE]

RemoveAt(seq, i) == SubSeq(seq, 1, i - 1) \o SubSeq(seq, i + 1, Len(seq))

\* a settle in which a failed save ends the session
settleUncaught(s, i, saved, stopThrows) ==
    IF saved THEN afterSave([s EXCEPT !.tasks = RemoveAt(@, i)], s.tasks[i], saved, stopThrows)
    ELSE [s EXCEPT !.tasks = RemoveAt(@, i), !.isRunning = FALSE]

\* task i leaves the list and its handler runs on
settle(s, i, saved, stopThrows) ==
    afterSave([s EXCEPT !.tasks = RemoveAt(@, i)], s.tasks[i], saved, stopThrows)

\* the file operation task i waits for completes, with success (ok) or an error
saveProject(s, i, ok, now, stopThrows) ==
    LET task == s.tasks[i] IN
    CASE task.pc = "mkdir" ->
            IF ok
            THEN LET stamped == [s EXCEPT !.modified_at = now] IN
                 [stamped EXCEPT !.tasks[i].json = <<stringify(stamped)>>,
                                 !.tasks[i].pc = "write"]
            ELSE settle(s, i, FALSE, stopThrows)
      [] task.pc = "write" ->
            IF ok
            THEN [s EXCEPT !.tmpFile = task.json, !.tasks[i].pc = "rename"]
            ELSE [s EXCEPT !.tmpFile = <<Partial(task.json[1])>>, !.tasks[i].pc = "rm"]
      [] task.pc = "rename" ->
            IF ok /\ s.tmpFile # <<>>
            THEN settle([s EXCEPT !.projectFile = s.tmpFile[1], !.tmpFile = <<>>],
                        i, TRUE, stopThrows)
            ELSE [s EXCEPT !.tasks[i].pc = "rm"]
      [] task.pc = "rm" ->
            settle(IF ok THEN [s EXCEPT !.tmpFile = <<>>] ELSE s, i, FALSE, stopThrows)

-----------------------------------------------------------------------------
(* Project names (utils/validation.ts) and the dispatch of the command line  *)
(* (index.ts).  A name is a sequence of one-character strings.               *)

MaxNameLen == 50

RESERVED_NAMES ==
    {<<"l", "i", "s", "t">>, <<"n", "e", "w">>,
     <<"d", "e", "l", "e", "t", "e">>, <<"o", "p", "e", "n">>,
     <<"t", "r", "e", "e">>, <<"h", "e", "l", "p">>,
     <<"v", "e", "r", "s", "i", "o", "n">>}

AlphaNumeric ==
    {"a", "b", "c", "d", "e", "f", "g", "h", "i", "j", "k", "l", "m", "n", "o",
     "p", "q", "r", "s", "t", "u", "v", "w", "x", "y", "z", "A", "N", "0", "1"}

\* String.prototype.toLowerCase, character by character
lowerChar(c) == CASE c = "A" -> "a" [] c = "N" -> "n" [] OTHER -> c

toLowerCase(name) == [i \in DOMAIN name |-> lowerChar(name[i])]

ErrNameShort == "Project name must be at least 1 character long."
ErrNameLong == "Project name must be 50 characters or less."
ErrNameStart == "Project name must start with a letter or number."
ErrNameChars == "Project name can only contain letters, numbers, hyphens, and underscores."
ErrNameReserved == "is a reserved name. Please choose another."

validateProjectName(name) ==
    IF Len(name) < 1 THEN [isValid |-> FALSE, error |-> ErrNameShort]
    ELSE IF Len(name) > MaxNameLen THEN [isValid |-> FALSE, error |-> ErrNameLong]
    ELSE IF name[1] \notin AlphaNumeric THEN [isValid |-> FALSE, error |-> ErrNameStart]
    ELSE IF \E i \in DOMAIN name : name[i] \notin AlphaNumeric \cup {"_", "-"}
    THEN [isValid |-> FALSE, error |-> ErrNameChars]
    ELSE IF toLowerCase(name) \in RESERVED_NAMES
    THEN [isValid |-> FALSE, error |-> ErrNameReserved]
    ELSE [isValid |-> TRUE, error |-> NULL]

isValidProjectName(name) == validateProjectName(name).isValid

normalizeProjectName(name) == toLowerCase(name)

knownCommands ==
    {<<"n", "e", "w">>, <<"c", "r", "e", "a", "t", "e">>,
     <<"i", "n", "i", "t">>, <<"a", "d", "d">>, <<"l", "i", "s", "t">>,
     <<"l", "s">>, <<"s", "h", "o", "w">>,
     <<"p", "r", "o", "j", "e", "c", "t", "s">>,
     <<"d", "e", "l", "e", "t", "e">>, <<"r", "m">>,
     <<"r", "e", "m", "o", "v", "e">>, <<"o", "p", "e", "n">>,
     <<"u", "s", "e">>, <<"s", "t", "a", "r", "t">>, <<"r", "u", "n">>,
     <<"t", "r", "e", "e">>, <<"v", "i", "e", "w">>, <<"h", "e", "l", "p">>}

\* the commands and aliases registered with commander
commandOf(word) ==
    CASE word \in {<<"n", "e", "w">>, <<"c", "r", "e", "a", "t", "e">>, <<"i", "n", "i", "t">>, <<"a", "d", "d">>} -> "new"
      [] word \in {<<"l", "i", "s", "t">>, <<"l", "s">>, <<"s", "h", "o", "w">>, <<"p", "r", "o", "j", "e", "c", "t", "s">>} -> "list"
      [] word \in {<<"d", "e", "l", "e", "t", "e">>, <<"r", "m">>, <<"r", "e", "m", "o", "v", "e">>} -> "delete"
      [] word \in {<<"o", "p", "e", "n">>, <<"u", "s", "e">>, <<"s", "t", "a", "r", "t">>, <<"r", "u", "n">>} -> "open"
      [] word \in {<<"t", "r", "e", "e">>, <<"v", "i", "e", "w">>} -> "tree"
      [] word = <<"h", "e", "l", "p">> -> "help"
      [] OTHER -> "unknown"

\* program.parseAsync: the first argument names the command, the rest are its
\* arguments; an argument beginning with - is an option of the program
parseAsync(argv) ==
    IF argv = <<>> THEN [command |-> "usage", args |-> <<>>]
    ELSE IF Head(argv) # <<>> /\ Head(argv)[1] = "-"
    THEN [command |-> "option", args |-> argv]
    ELSE [command |-> commandOf(Head(argv)), args |-> Tail(argv)]

NoCommand == [argv |-> <<>>, command |-> "none", args |-> <<>>]

\* main() on process.argv.slice(2)
main(args) ==
    IF Len(args) = 0 THEN [argv |-> args, command |-> "list", args |-> <<>>]
    ELSE LET first == args[1]
             startsWithDash == first # <<>> /\ first[1] = "-"
             argv == IF ~startsWithDash /\ first \notin knownCommands
                        /\ isValidProjectName(first)
                     THEN <<<<"o", "p", "e", "n">>>> \o args
                     ELSE args
             parsed == parseAsync(argv)
         IN [argv |-> args, command |-> parsed.command, args |-> parsed.args]

-----------------------------------------------------------------------------
(* Loading a project file (data/storage.ts).  A parsed JSON value is a record *)
(* with its kind; a string carries its characters, an array its items, an     *)
(* object its properties.                                                     *)

JNull == [kind |-> "null"]
JUndefined == [kind |-> "undefined"]
JNumber == [kind |-> "number"]
JString(s) == [kind |-> "string", chars |-> s]
JArray(items) == [kind |-> "array", items |-> items]
JObject(props) == [kind |-> "object", props |-> props]

\* n.<key> of a value: undefined when the value has no such property
get(n, key) ==
    IF n.kind = "object" /\ key \in DOMAIN n.props THEN n.props[key] ELSE JUndefined

\* typeof value === "string"
isString(v) == v.kind = "string"

\* value === "open", value === "done"
isText(v, text) == v.kind = "string" /\ v.chars = text

IdLen == 36

ErrNodeObject == "expected object"
ErrNodeId == "id must be a 36-character UUID"
ErrNodeTitle == "title must be 1-200 characters"
ErrNodeStatus == "status must be \"open\" or \"done\""
ErrNodeChildren == "children must be an array"
ErrNodeCreated == "created_at must be a string"
ErrNodeCompleted == "completed_at must be string or null"
Valid == "valid"

RECURSIVE validateNode(_)
RECURSIVE validateChildren(_, _)

\* the loop over n.children: the first child that throws ends it
validateChildren(items, i) ==
    IF i > Len(items) THEN Valid
    ELSE LET r == validateNode(items[i])
         IN  IF r # Valid THEN r ELSE validateChildren(items, i + 1)

\* validateNode throws an Error or returns true: the message thrown, or Valid
validateNode(node) ==
    IF node.kind \notin {"object", "array"} THEN ErrNodeObject
    ELSE IF ~isString(get(node, "id")) \/ Len(get(node, "id").chars) # IdLen THEN ErrNodeId
    ELSE IF \/ ~isString(get(node, "title"))
            \/ Len(get(node, "title").chars) < 1
            \/ Len(get(node, "title").chars) > MaxTitleLen THEN ErrNodeTitle
    ELSE IF ~isText(get(node, "status"), <<"o", "p", "e", "n">>)
            /\ ~isText(get(node, "status"), <<"d", "o", "n", "e">>) THEN ErrNodeStatus
    ELSE IF get(node, "children").kind # "array" THEN ErrNodeChildren
    ELSE IF ~isString(get(node, "created_at")) THEN ErrNodeCreated
    ELSE IF get(node, "completed_at").kind # "null" /\ ~isString(get(node, "completed_at"))
         THEN ErrNodeCompleted
    ELSE validateChildren(get(node, "children").items, 1)

ErrProjectObject == "Project must be an object"
ErrProjectName == "Project must have a project_name string"
ErrProjectVersion == "Project must have a version string"
ErrProjectCreated == "Project must have a created_at timestamp"
ErrProjectModified == "Project must have a modified_at timestamp"

validateProjectSchema(project) ==
    IF project.kind \notin {"object", "array"} THEN ErrProjectObject
    ELSE IF ~isString(get(project, "project_name")) THEN ErrProjectName
    ELSE IF ~isString(get(project, "version")) THEN ErrProjectVersion
    ELSE IF ~isString(get(project, "created_at")) THEN ErrProjectCreated
    ELSE IF ~isString(get(project, "modified_at")) THEN ErrProjectModified
    ELSE validateNode(get(project, "root"))

\* A project file: absent, not JSON, or the value its JSON text parses to
NoFile == [exists |-> FALSE, json |-> FALSE, value |-> JUndefined]
NotJson == [exists |-> TRUE, json |-> FALSE, value |-> JUndefined]
JsonFile(value) == [exists |-> TRUE, json |-> TRUE, value |-> value]

ErrNotFound == "not found"
ErrInvalidJson == "has invalid JSON"
ErrInvalidStructure == "has invalid structure"

\* loadProject resolves with the project or throws: ok, the error and its detail
loadProject(file) ==
    IF ~file.exists THEN [ok |-> FALSE, error |-> ErrNotFound, detail |-> ""]
    ELSE IF ~file.json THEN [ok |-> FALSE, error |-> ErrInvalidJson, detail |-> ""]
    ELSE LET r == validateProjectSchema(file.value)
         IN  IF r # Valid THEN [ok |-> FALSE, error |-> ErrInvalidStructure, detail |-> r]
             ELSE [ok |-> TRUE, error |-> "", detail |-> ""]

NoLoad == [file |-> NoFile, result |-> [ok |-> FALSE, error |-> "", detail |-> ""]]

-----------------------------------------------------------------------------
(* The session as a state machine *)

MaxTimers == 1      \* pending feedback timers
MaxTasks == 1       \* handlers suspended in a save
MaxBuf == 1         \* characters in a modal's input

MaxOverlap == 2     \* saves, and feedback timers, pending together where they overlap

\* the input lengths explored: short ones, and those at the title limit
BufLens == 0..MaxBuf \cup (MaxTitleLen - 1)..(MaxTitleLen + 1)

S == [tree |-> tree, nextId |-> nextId, modified_at |-> modified_at,
      navigationStack |-> navigationStack, selectedIndex |-> selectedIndex,
      modalState |-> modalState, feedbackMessage |-> feedbackMessage,
      timers |-> timers, tasks |-> tasks, isRunning |-> isRunning,
      rendererStopped |-> rendererStopped, tmpFile |-> tmpFile,
      projectFile |-> projectFile, terminalRestored |-> terminalRestored,
      startResolved |-> startResolved]

Commit(r) ==
    /\ tree' = r.tree
    /\ nextId' = r.nextId
    /\ modified_at' = r.modified_at
    /\ navigationStack' = r.navigationStack
    /\ selectedIndex' = r.selectedIndex
    /\ modalState' = r.modalState
    /\ feedbackMessage' = r.feedbackMessage
    /\ timers' = r.timers
    /\ tasks' = r.tasks
    /\ isRunning' = r.isRunning
    /\ rendererStopped' = r.rendererStopped
    /\ tmpFile' = r.tmpFile
    /\ projectFile' = r.projectFile
    /\ terminalRestored' = r.terminalRestored
    /\ startResolved' = r.startResolved
    /\ cli' = cli
    /\ loadLog' = loadLog

WithinBounds(r, env) ==
    /\ Len(r.timers) <= env.maxTimers
    /\ Len(r.tasks) <= env.maxTasks
    /\ r.nextId <= MaxId + 1
    /\ Len(r.modalState.inputValue) \in BufLens

\* the TUIApp constructor and start() on the project loaded from the file
Started(t, n) ==
    LET loaded == [tree |-> t, nextId |-> n, modified_at |-> "t1",
                   navigationStack |-> <<>>, selectedIndex |-> 0,
                   modalState |-> NoModal, feedbackMessage |-> NULL,
                   timers |-> <<>>, tasks |-> <<>>, isRunning |-> TRUE,
                   rendererStopped |-> FALSE, tmpFile |-> <<>>,
                   projectFile |-> [tree |-> t, modified_at |-> "t1", complete |-> TRUE],
                   terminalRestored |-> FALSE, startResolved |-> FALSE]
    IN updateDisplay(initializeNavigation(loaded))

NoOp == [op |-> "none", node |-> RootId, arg |-> RootId, ret |-> TRUE]

Begin(r) ==
    /\ tree = r.tree
    /\ nextId = r.nextId
    /\ modified_at = r.modified_at
    /\ navigationStack = r.navigationStack
    /\ selectedIndex = r.selectedIndex
    /\ modalState = r.modalState
    /\ feedbackMessage = r.feedbackMessage
    /\ timers = r.timers
    /\ tasks = r.tasks
    /\ isRunning = r.isRunning
    /\ rendererStopped = r.rendererStopped
    /\ tmpFile = r.tmpFile
    /\ projectFile = r.projectFile
    /\ terminalRestored = r.terminalRestored
    /\ startResolved = r.startResolved
    /\ cli = NoCommand
    /\ loadLog = NoLoad

InitSession(t, n) ==
    /\ Begin(Started(t, n))
    /\ opLog = NoOp
    /\ navHist = <<>>

\* the outcome of the navigation operation a key is bound to
navResult(s, key) ==
    LET name == keyName(key) IN
    CASE name \in {"up", "k"} -> moveUp(s)
      [] name \in {"down", "j"} -> moveDown(s)
      [] name \in {"right", "l", "return", "enter", "space"} -> diveIn(s)
      [] name \in {"left", "h"} -> goBack(s)
      [] OTHER -> Ok(s)

navOp(key) ==
    LET name == keyName(key) IN
    CASE name \in {"up", "k"} -> "moveUp"
      [] name \in {"down", "j"} -> "moveDown"
      [] name \in {"right", "l", "return", "enter", "space"} -> "diveIn"
      [] name \in {"left", "h"} -> "goBack"
      [] OTHER -> "other"

LastTwo(seq) == IF Len(seq) > 2 THEN SubSeq(seq, Len(seq) - 1, Len(seq)) ELSE seq

\* one keypress event, handled up to the first await of its handler
KeyPress(env) ==
    /\ isRunning /\ ~rendererStopped
    /\ \E key \in env.keys, now \in env.times :
        LET r == handleKeyPress(S, key, now)
            inNav == modalState.type = "none"
            res == navResult(S, key)
        IN
        /\ WithinBounds(r, env)
        /\ Commit(r)
        /\ navHist' = IF inNav /\ res.success /\ navOp(key) # "other"
                      THEN LastTwo(Append(navHist,
                              [op |-> navOp(key), navigationStack |-> navigationStack,
                               selectedIndex |-> selectedIndex]))
                      ELSE <<>>
    /\ UNCHANGED opLog

\* the oldest feedback timer fires (all timers have the same delay)
TimerFires ==
    /\ isRunning
    /\ timers # <<>>
    /\ Commit([feedbackExpired(S, Head(timers)) EXCEPT !.timers = Tail(timers)])
    /\ UNCHANGED <<opLog, navHist>>

\* a file operation of a pending save completes
IoCompletes(env) ==
    /\ isRunning
    /\ \E i \in 1..Len(tasks), ok \in env.io, now \in env.times, th \in env.stopThrows :
        LET r == saveProject(S, i, ok, now, th) IN
        /\ WithinBounds(r, env)
        /\ Commit(r)
    /\ UNCHANGED <<opLog, navHist>>

\* a file operation of the save of task i completes
IoCompletesAt(env, i) ==
    /\ isRunning
    /\ i \in 1..Len(tasks)
    /\ \E ok \in env.io, now \in env.times, th \in env.stopThrows :
        LET r == saveProject(S, i, ok, now, th) IN
        /\ WithinBounds(r, env)
        /\ Commit(r)
    /\ UNCHANGED <<opLog, navHist>>

\* the poll of start() finds isRunning false and resolves; startTUI's finally
\* restores the terminal
StartResolves ==
    /\ ~isRunning
    /\ ~startResolved
    /\ Commit([S EXCEPT !.startResolved = TRUE, !.terminalRestored = TRUE])
    /\ UNCHANGED <<opLog, navHist>>

Key(name, sequence) == [name |-> name, sequence |-> sequence]
Char(c) == Key(c, <<c>>)
KeyUp == Key("up", <<"ESC", "[", "A">>)
KeyDown == Key("down", <<"ESC", "[", "B">>)
KeyRight == Key("right", <<"ESC", "[", "C">>)
KeyLeft == Key("left", <<"ESC", "[", "D">>)
KeyReturn == Key("return", <<"CR">>)
KeyEscape == Key("escape", <<"ESC">>)
KeyTab == Key("tab", <<"TAB">>)
KeyBackspace == Key("backspace", <<"DEL">>)
KeySpace == Key("space", <<" ">>)
KeyShiftA == Key("a", <<"A">>)
KeyBang == Key(NULL, <<"!">>)
KeyEnter == Key("enter", <<"LF">>)
KeyHelp == Key(NULL, <<"?">>)

\* a loaded project: the root with the children 1 and 2
TwoChildren ==
    (RootId :> [createNode(<<"r">>) EXCEPT !.children = <<1, 2>>])
    @@ (1 :> createNode(<<"x">>)) @@ (2 :> createNode(<<"y">>))

\* navigation, adding and deleting, on a disk that does not fail
EnvNav == [keys |-> {KeyUp, KeyDown, KeyLeft, KeyReturn, KeyEscape, KeyTab,
                     Char("n"), Char("x"), Char("a")},
           times |-> {"t1"}, io |-> {TRUE}, stopThrows |-> {FALSE},
           maxTimers |-> MaxTimers, maxTasks |-> MaxTasks]

InitNav == InitSession(TwoChildren, 3)

NextNav ==
    \/ KeyPress(EnvNav)
    \/ TimerFires
    \/ IoCompletes(EnvNav)

SpecNav == InitNav /\ [][NextNav]_vars

-----------------------------------------------------------------------------
(* Walking a loaded project of two levels with the navigation keys *)

\* the root with the children 1 and 2, and 3 below 2
TwoLevels ==
    (RootId :> [createNode(<<"r">>) EXCEPT !.children = <<1, 2>>])
    @@ (1 :> createNode(<<"x">>))
    @@ (2 :> [createNode(<<"y">>) EXCEPT !.children = <<3>>])
    @@ (3 :> createNode(<<"z">>))

EnvWalk == [keys |-> {KeyUp, KeyDown, KeyRight, KeyLeft, KeyReturn, KeySpace,
                      Char("k"), Char("j"), Char("l"), Char("h"), Char("r"), KeyHelp},
            times |-> {"t1"}, io |-> {TRUE}, stopThrows |-> {FALSE},
           maxTimers |-> MaxTimers, maxTasks |-> MaxTasks]

InitWalk == InitSession(TwoLevels, 4)

NextWalk ==
    \/ KeyPress(EnvWalk)
    \/ TimerFires

SpecWalk == InitWalk /\ [][NextWalk]_vars

-----------------------------------------------------------------------------
(* The New and Edit modals on a project whose one task has a title of the   *)
(* greatest length the project file may hold                                *)

LongTitle == [i \in 1..MaxTitleLen |-> "a"]

LongTitled ==
    (RootId :> [createNode(<<"r">>) EXCEPT !.children = <<1>>])
    @@ (1 :> createNode(LongTitle))

EnvModal == [keys |-> {Char("n"), Char("e"), KeySpace, KeyBackspace, KeyReturn, KeyTab},
             times |-> {"t1"}, io |-> {TRUE}, stopThrows |-> {FALSE},
           maxTimers |-> MaxTimers, maxTasks |-> MaxTasks]

InitModal == InitSession(LongTitled, 3)

NextModal ==
    \/ KeyPress(EnvModal)
    \/ TimerFires
    \/ IoCompletes(EnvModal)

SpecModal == InitModal /\ [][NextModal]_vars

-----------------------------------------------------------------------------
(* Opening, filling, submitting and cancelling the New, Edit and Delete modals *)

EnvCancel == [keys |-> {Char("n"), Char("e"), Char("x"), KeyBackspace, KeyEscape,
                        KeyTab, KeyReturn},
              times |-> {"t1"}, io |-> {TRUE}, stopThrows |-> {FALSE},
              maxTimers |-> MaxTimers, maxTasks |-> MaxTasks]

InitCancel == InitSession(TwoChildren, 3)

NextCancel ==
    \/ KeyPress(EnvCancel)
    \/ TimerFires
    \/ IoCompletes(EnvCancel)

SpecCancel == InitCancel /\ [][NextCancel]_vars

-----------------------------------------------------------------------------
(* Toggling a task again and again on a disk that can fail, the next key     *)
(* pressed before the save of the last has finished                          *)

\* the root with the one child 1
OneChild ==
    (RootId :> [createNode(<<"r">>) EXCEPT !.children = <<1>>])
    @@ (1 :> createNode(<<"x">>))

EnvOverlap == [keys |-> {Char("d")},
               times |-> {"t1"}, io |-> {TRUE, FALSE}, stopThrows |-> {FALSE},
               maxTimers |-> MaxOverlap, maxTasks |-> MaxOverlap]

InitOverlap == InitSession(OneChild, 2)

NextOverlap ==
    \/ KeyPress(EnvOverlap)
    \/ TimerFires
    \/ IoCompletes(EnvOverlap)

SpecOverlap == InitOverlap /\ [][NextOverlap]_vars

-----------------------------------------------------------------------------
(* Walking the project of two levels, a key pressed while the feedback of    *)
(* the last is still shown                                                   *)

EnvTimer == [EnvWalk EXCEPT !.maxTimers = MaxOverlap]

InitTimer == InitSession(TwoLevels, 4)

NextTimer ==
    \/ KeyPress(EnvTimer)
    \/ TimerFires

SpecTimer == InitTimer /\ [][NextTimer]_vars

\* every timer set fires once its delay has passed
FairTimer == WF_vars(TimerFires)

SpecTimerFair == SpecTimer /\ FairTimer

-----------------------------------------------------------------------------
(* Adding, retitling, deleting and toggling tasks *)

EnvMutate == [keys |-> {Char("n"), Char("e"), Char("x"), Char("d"), KeyTab, KeyReturn},
              times |-> {"t1"}, io |-> {TRUE}, stopThrows |-> {FALSE},
              maxTimers |-> MaxTimers, maxTasks |-> MaxTasks]

InitMutate == InitSession(TwoChildren, 3)

NextMutate ==
    \/ KeyPress(EnvMutate)
    \/ TimerFires
    \/ IoCompletes(EnvMutate)

SpecMutate == InitMutate /\ [][NextMutate]_vars

-----------------------------------------------------------------------------
(* Adding and toggling tasks on a disk that can fail *)

EnvFail == [keys |-> {Char("n"), Char("d"), KeyReturn},
            times |-> {"t1"}, io |-> {TRUE, FALSE}, stopThrows |-> {FALSE},
            maxTimers |-> MaxOverlap, maxTasks |-> MaxTasks]

InitFail == InitSession(TwoChildren, 3)

NextFail ==
    \/ KeyPress(EnvFail)
    \/ TimerFires
    \/ IoCompletes(EnvFail)

SpecFail == InitFail /\ [][NextFail]_vars

-----------------------------------------------------------------------------
(* Quitting, on a disk that can fail and with a renderer whose stop() can    *)
(* throw                                                                     *)

EnvQuit == [keys |-> {Char("q"), Char("d"), KeyDown},
            times |-> {"t1"}, io |-> {TRUE, FALSE}, stopThrows |-> {TRUE, FALSE},
            maxTimers |-> MaxOverlap, maxTasks |-> MaxTasks]

InitQuit == InitSession(TwoChildren, 3)

NextQuit ==
    \/ KeyPress(EnvQuit)
    \/ TimerFires
    \/ IoCompletes(EnvQuit)
    \/ StartResolves

SpecQuit == InitQuit /\ [][NextQuit]_vars

\* every timer fires, every file operation completes (whatever else happens
\* in between) and the poll of start() keeps running
FairQuit ==
    /\ WF_vars(TimerFires)
    /\ \A i \in 1..MaxTasks : SF_vars(IoCompletesAt(EnvQuit, i))
    /\ WF_vars(StartResolves)

SpecQuitFair == SpecQuit /\ FairQuit

-----------------------------------------------------------------------------
(* Adding, retitling, deleting and toggling tasks in the project with a     *)
(* title at the limit, spaces typed into the titles                         *)

EnvRetitle == [keys |-> {Char("n"), Char("e"), Char("x"), Char("d"), KeySpace, KeyReturn,
                         KeyTab},
               times |-> {"t1"}, io |-> {TRUE}, stopThrows |-> {FALSE},
               maxTimers |-> MaxTimers, maxTasks |-> MaxTasks]

InitRetitle == InitSession(LongTitled, 3)

NextRetitle ==
    \/ KeyPress(EnvRetitle)
    \/ TimerFires
    \/ IoCompletes(EnvRetitle)

SpecRetitle == InitRetitle /\ [][NextRetitle]_vars

-----------------------------------------------------------------------------
(* Typing into the New and Edit modals: letters, a capital, a space, a       *)
(* character that is not allowed, Backspace                                  *)

EnvType == [keys |-> {Char("n"), Char("e"), KeyShiftA, KeyBang, KeySpace, KeyBackspace,
                      KeyEscape, KeyDown},
            times |-> {"t1"}, io |-> {TRUE}, stopThrows |-> {FALSE},
            maxTimers |-> MaxTimers, maxTasks |-> MaxTasks]

InitType == InitSession(LongTitled, 3)

NextType ==
    \/ KeyPress(EnvType)
    \/ TimerFires

SpecType == InitType /\ [][NextType]_vars

-----------------------------------------------------------------------------
(* The command line: `dft` run with one or two arguments *)

LongName == [i \in 1..MaxNameLen |-> "p"]

NameChoices ==
    knownCommands \cup RESERVED_NAMES
    \cup {<<"m", "y", "p">>, <<"p", "-", "1">>, <<"a", "_", "b">>,
          <<"A", "d", "d">>, <<"N", "e", "w">>, <<"-", "y">>, <<"_", "a">>,
          <<"a", " ", "b">>, <<"a", "!">>,
          <<"v", "e", "r", "s", "i", "o", "n">>,
          <<>>, LongName, LongName \o <<"p">>}

ArgChoices == {<<"m", "y", "p">>, <<"a", "d", "d">>, <<"-", "y">>}

ArgvChoices ==
    {<<>>} \cup {<<name>> : name \in NameChoices}
    \cup {<<name, arg>> : name \in NameChoices, arg \in ArgChoices}

InitCli == InitSession(TwoChildren, 3)

Main ==
    /\ \E args \in ArgvChoices : cli' = main(args)
    /\ UNCHANGED <<treeVars, opLog, modified_at, navigationStack, selectedIndex, modalState,
                   feedbackMessage, timers, tasks, isRunning, rendererStopped, tmpFile,
                   projectFile, terminalRestored, startResolved, navHist, loadLog>>

NextCli == Main

SpecCli == InitCli /\ [][NextCli]_vars

-----------------------------------------------------------------------------
(* Loading project files: well-formed ones and ones with one node altered *)

Hex == {"0", "1", "2", "3", "4", "5", "6", "7", "8", "9", "a", "b", "c", "d", "e", "f"}
Digits == {"0", "1", "2", "3", "4", "5", "6", "7", "8", "9"}
UuidHyphens == {9, 14, 19, 24}

\* the identifier format: what uuidv4() returns, 8-4-4-4-12 hexadecimal digits
isUuid(s) ==
    /\ Len(s) = IdLen
    /\ \A i \in 1..Len(s) : IF i \in UuidHyphens THEN s[i] = "-" ELSE s[i] \in Hex

\* the timestamp format: what toISOString() returns, YYYY-MM-DDTHH:mm:ss.sssZ
IsoPattern == <<"9", "9", "9", "9", "-", "9", "9", "-", "9", "9", "T", "9", "9", ":", "9", "9", ":", "9", "9", ".", "9", "9", "9", "Z">>
isIsoTime(s) ==
    /\ Len(s) = Len(IsoPattern)
    /\ \A i \in 1..Len(s) : IF IsoPattern[i] = "9" THEN s[i] \in Digits ELSE s[i] = IsoPattern[i]

Str(n, c) == [i \in 1..n |-> c]
SomeUuid == [i \in 1..IdLen |-> IF i \in UuidHyphens THEN "-" ELSE "a"]
SomeTime == [i \in 1..Len(IsoPattern) |-> IF IsoPattern[i] = "9" THEN "1" ELSE IsoPattern[i]]
Yesterday == <<"y", "e", "s", "t", "e", "r", "d", "a", "y">>
StatusOpen == JString(<<"o", "p", "e", "n">>)
StatusDone == JString(<<"d", "o", "n", "e">>)

GoodNode(children) ==
    JObject([id |-> JString(SomeUuid), title |-> JString(<<"a">>), status |-> StatusOpen,
             children |-> JArray(children), created_at |-> JString(SomeTime),
             completed_at |-> JNull])
GoodLeaf == GoodNode(<<>>)
With(node, key, v) == JObject([node.props EXCEPT ![key] = v])

\* a node of the file: a well-formed one, or one with one thing wrong
NodeChoices ==
    {GoodLeaf, JString(<<"a">>), JNull, JNumber, JArray(<<>>), JObject(<<>>)}
    \cup {With(GoodLeaf, "id", v) :
            v \in {JNumber, JNull, JString(Str(IdLen - 1, "a")), JString(Str(IdLen + 1, "a")),
                   JString(Str(IdLen, "z"))}}
    \cup {With(GoodLeaf, "title", v) :
            v \in {JNumber, JString(<<>>), JString(Str(MaxTitleLen, "a")),
                   JString(Str(MaxTitleLen + 1, "a"))}}
    \cup {With(GoodLeaf, "status", v) : v \in {JNull, JString(<<"t", "o", "d", "o">>), JString(<<"O", "P", "E", "N">>)}}
    \cup {With(GoodLeaf, "children", v) : v \in {JNull, JObject(<<>>), JString(<<>>)}}
    \cup {With(GoodLeaf, "created_at", v) : v \in {JNumber, JNull, JString(Yesterday)}}
    \cup {With(With(GoodLeaf, "status", StatusDone), "completed_at", v) :
            v \in {JNumber, JString(SomeTime), JString(Yesterday)}}

Places == {"root", "first child", "second child", "grandchild"}
Place(node, where) ==
    CASE where = "root" -> node
      [] where = "first child" -> GoodNode(<<node, GoodLeaf>>)
      [] where = "second child" -> GoodNode(<<GoodLeaf, node>>)
      [] OTHER -> GoodNode(<<GoodLeaf, GoodNode(<<node>>)>>)

ProjectOf(root) ==
    JObject([project_name |-> JString(<<"p">>), version |-> JString(<<"1">>),
             created_at |-> JString(SomeTime), modified_at |-> JString(SomeTime),
             root |-> root])

FileChoices ==
    {NoFile, NotJson, JsonFile(JNull), JsonFile(JObject(<<>>))}
    \cup {JsonFile(With(ProjectOf(GoodLeaf), key, JNumber)) :
            key \in {"project_name", "version", "created_at", "modified_at"}}
    \cup {JsonFile(ProjectOf(Place(node, where))) : node \in NodeChoices, where \in Places}

InitLoad == InitSession(TwoChildren, 3)

LoadProject ==
    /\ \E file \in FileChoices : loadLog' = [file |-> file, result |-> loadProject(file)]
    /\ UNCHANGED <<treeVars, opLog, modified_at, navigationStack, selectedIndex, modalState,
                   feedbackMessage, timers, tasks, isRunning, rendererStopped, tmpFile,
                   projectFile, terminalRestored, startResolved, navHist, cli>>

NextLoad == LoadProject

SpecLoad == InitLoad /\ [][NextLoad]_vars

-----------------------------------------------------------------------------
(* Moving among three siblings and deleting them in the session that focuses *)
(* one node                                                                  *)

\* a loaded project: the root with the children 1, 2 and 3
ThreeSiblings ==
    (RootId :> [createNode(<<"r">>) EXCEPT !.children = <<1, 2, 3>>])
    @@ (1 :> createNode(<<"x">>)) @@ (2 :> createNode(<<"y">>))
    @@ (3 :> createNode(<<"z">>))

EnvFocus == [keys |-> {KeyUp, KeyDown, KeyRight, KeyLeft, Char("x"), KeyTab, KeyReturn,
                       KeyEscape},
             times |-> {"t1"}, io |-> {TRUE}, stopThrows |-> {FALSE},
             maxTimers |-> MaxTimers, maxTasks |-> MaxTasks]

InitFocus ==
    /\ Begin(initializeNavigationFocus(Started(ThreeSiblings, 4)))
    /\ opLog = NoOp
    /\ navHist = <<>>

FocusKeyPress(env) ==
    /\ isRunning /\ ~rendererStopped
    /\ \E key \in env.keys :
        LET r == handleKeyPressFocus(S, key) IN
        /\ WithinBounds(r, env)
        /\ Commit(r)
    /\ UNCHANGED <<opLog, navHist>>

NextFocus ==
    \/ FocusKeyPress(EnvFocus)
    \/ TimerFires
    \/ IoCompletes(EnvFocus)

SpecFocus == InitFocus /\ [][NextFocus]_vars

-----------------------------------------------------------------------------
(* Deleting with the confirm key pressed again while the save is pending *)

EnvConfirm == [keys |-> {Char("x"), KeyTab, KeyReturn, KeyEscape},
               times |-> {"t1"}, io |-> {TRUE}, stopThrows |-> {FALSE},
               maxTimers |-> MaxOverlap, maxTasks |-> MaxOverlap]

InitConfirm == InitSession(TwoChildren, 3)

NextConfirm ==
    \/ KeyPress(EnvConfirm)
    \/ TimerFires
    \/ IoCompletes(EnvConfirm)

SpecConfirm == InitConfirm /\ [][NextConfirm]_vars

-----------------------------------------------------------------------------
(* The tree operations applied one at a time to a new project *)

TitleInputs == {<<" ", "a", " ">>}

\* commands/new.ts: the project of `dft new`, a root without children
NewProjectTree == (RootId :> createNode(<<"a">>))

InitOps ==
    /\ Begin(Started(NewProjectTree, 1))
    /\ opLog = NoOp
    /\ navHist = <<>>

Log(op, node, arg, ret) ==
    opLog' = [op |-> op, node |-> node, arg |-> arg, ret |-> ret]

OpAddChild ==
    \E parent \in DOMAIN tree, title \in TitleInputs :
        /\ nextId <= MaxId
        /\ tree' = addChildNode(tree, parent, nextId, title)
        /\ nextId' = nextId + 1
        /\ Log("addChild", parent, nextId, TRUE)
        /\ UNCHANGED sessionVars

OpEditTitle ==
    \E n \in DOMAIN tree, title \in TitleInputs :
        /\ tree' = editNodeTitle(tree, n, title)
        /\ Log("edit", n, n, TRUE)
        /\ UNCHANGED <<nextId, sessionVars>>

OpMarkDone ==
    \E n \in DOMAIN tree, now \in Times :
        /\ tree' = markNodeDone(tree, n, now)
        /\ Log("markDone", n, n, TRUE)
        /\ UNCHANGED <<nextId, sessionVars>>

OpMarkOpen ==
    \E n \in DOMAIN tree :
        /\ tree' = markNodeOpen(tree, n)
        /\ Log("markOpen", n, n, TRUE)
        /\ UNCHANGED <<nextId, sessionVars>>

OpToggle ==
    \E n \in DOMAIN tree, now \in Times :
        /\ tree' = toggleNodeStatus(tree, n, now)
        /\ Log("toggle", n, n, TRUE)
        /\ UNCHANGED <<nextId, sessionVars>>

OpDelete ==
    \E parent \in DOMAIN tree, id \in 0..MaxId :
        LET r == deleteNode(tree, parent, id) IN
        /\ tree' = r.tree
        /\ Log("delete", parent, id, r.ret)
        /\ UNCHANGED <<nextId, sessionVars>>

NextOps ==
    \/ OpAddChild
    \/ OpEditTitle
    \/ OpMarkDone
    \/ OpMarkOpen
    \/ OpToggle
    \/ OpDelete

SpecOps == InitOps /\ [][NextOps]_vars

-----------------------------------------------------------------------------
(* The title operations handed titles of every kind, what validateTitle     *)
(* says of each title noted in the log                                      *)

TitleChoices ==
    {<<>>, <<" ">>, <<" ", "a", " ">>, LongTitle, <<" ">> \o LongTitle \o <<"a">>}

InitTitles ==
    /\ Begin(Started(NewProjectTree, 1))
    /\ opLog = NoOp
    /\ navHist = <<>>

OpAddTitled ==
    \E parent \in DOMAIN tree, title \in TitleChoices :
        /\ nextId <= MaxId
        /\ tree' = addChildNode(tree, parent, nextId, title)
        /\ nextId' = nextId + 1
        /\ Log("addTitled", parent, nextId, validateTitle(title).isValid)
        /\ UNCHANGED sessionVars

OpEditTitled ==
    \E n \in DOMAIN tree, title \in TitleChoices :
        /\ tree' = editNodeTitle(tree, n, title)
        /\ Log("editTitled", n, n, validateTitle(title).isValid)
        /\ UNCHANGED <<nextId, sessionVars>>

NextTitles ==
    \/ OpAddTitled
    \/ OpEditTitled

SpecTitles == InitTitles /\ [][NextTitles]_vars

-----------------------------------------------------------------------------
(* What the claims speak of *)

IsChildOf(t, p, c) == \E i \in 1..Len(t[p].children) : t[p].children[i] = c

RECURSIVE Closure(_, _)
Closure(t, nodes) ==
    LET more == nodes \cup {c \in DOMAIN t : \E p \in nodes : IsChildOf(t, p, c)} IN
    IF more = nodes THEN nodes ELSE Closure(t, more)

\* n and its descendants at every depth
SubtreeOf(t, n) == Closure(t, {n})

Without(kids, id) == SelectSeq(kids, LAMBDA c : c # id)

\* C1: after markDone(n), n and every descendant of n at every depth are DONE,
\* and no node outside the subtree of n is changed.
C1_MarkDoneCascades ==
    [][opLog'.op = "markDone" =>
        LET n == opLog'.node IN
        /\ DOMAIN tree' = DOMAIN tree
        /\ \A d \in SubtreeOf(tree, n) : tree'[d].status = "done"
        /\ \A x \in DOMAIN tree \ SubtreeOf(tree, n) : tree'[x] = tree[x]]_vars

\* markDone(root) was applied to a chain root -> A -> B -> C: all four are DONE
C1_Witness ==
    /\ opLog.op = "markDone"
    /\ opLog.node = RootId
    /\ \E a, b, c \in DOMAIN tree :
          /\ IsChildOf(tree, RootId, a) /\ IsChildOf(tree, a, b) /\ IsChildOf(tree, b, c)
          /\ \A x \in {RootId, a, b, c} : tree[x].status = "done"

\* C2: markOpen(n) on a DONE node sets n to OPEN with completed_at cleared and
\* leaves every other node, the descendants of n among them, as it was.
C2_MarkOpenNoCascade ==
    [][(opLog'.op = "markOpen" /\ tree[opLog'.node].status = "done") =>
        LET n == opLog'.node IN
        /\ DOMAIN tree' = DOMAIN tree
        /\ tree'[n].status = "open"
        /\ tree'[n].completed_at = NULL
        /\ \A d \in DOMAIN tree \ {n} :
              /\ tree'[d].status = tree[d].status
              /\ tree'[d].completed_at = tree[d].completed_at]_vars

\* markOpen was applied to a node that still has a DONE child and grandchild
C2_Witness ==
    /\ opLog.op = "markOpen"
    /\ tree[opLog.node].status = "open"
    /\ \E c, g \in DOMAIN tree :
          /\ IsChildOf(tree, opLog.node, c) /\ IsChildOf(tree, c, g)
          /\ tree[c].status = "done" /\ tree[c].completed_at # NULL
          /\ tree[g].status = "done"

\* C3: deleteChild(parent, id) on a child of parent removes that child and its
\* subtree, and nothing else, and returns true; the same call again returns
\* false and changes nothing.
C3_DeleteChild ==
    [][opLog'.op = "delete" =>
        LET p == opLog'.node
            id == opLog'.arg
        IN
        /\ IsChildOf(tree, p, id) =>
              /\ opLog'.ret = TRUE
              /\ tree'[p].children = Without(tree[p].children, id)
              /\ Len(tree'[p].children) = Len(tree[p].children) - 1
              /\ DOMAIN tree' = DOMAIN tree \ SubtreeOf(tree, id)
              /\ \A x \in DOMAIN tree' \ {p} : tree'[x] = tree[x]
              /\ deleteNode(tree', p, id) = [tree |-> tree', ret |-> FALSE]
        /\ ~IsChildOf(tree, p, id) => (opLog'.ret = FALSE /\ tree' = tree)
        /\ (opLog.op = "delete" /\ opLog.ret /\ opLog.node = p /\ opLog.arg = id)
              => (opLog'.ret = FALSE /\ tree' = tree)]_vars

\* a child with a subtree was deleted from between two siblings that remain
C3_Witness ==
    /\ opLog.op = "delete"
    /\ opLog.ret = TRUE
    /\ opLog.arg \notin DOMAIN tree
    /\ opLog.arg = 1
    /\ nextId = MaxId + 1
    /\ Len(tree[opLog.node].children) = 1
    /\ Cardinality(DOMAIN tree) = 2

-----------------------------------------------------------------------------
(* The list cursor *)

InRange(i, len) == IF len = 0 THEN i = 0 ELSE i >= 0 /\ i <= len - 1

\* C4: in every state of the list-cursor session, from initializeNavigation on and
\* through navigation, adding and deleting, selectedIndex lies within
\* [0, length-1] of the list in view, and is 0 when that list is empty.
C4_SelectionValid == InRange(selectedIndex, Len(getCurrentList(S)))

\* a task was added below a task dived into and deleted again: the list in view
\* is empty while the delete is being saved
C4_Witness ==
    /\ tasks # <<>>
    /\ tasks[1].op = "delete"
    /\ navigationStack # <<>>
    /\ nextId > 3
    /\ getCurrentList(S) = <<>>
    /\ selectedIndex = 0

UpKeys == {KeyUp, Char("k")}
DownKeys == {KeyDown, Char("j")}
DiveKeys == {KeyRight, Char("l"), KeyReturn, KeyEnter, KeySpace}
BackKeys == {KeyLeft, Char("h")}

SamePosition(r) ==
    /\ r.navigationStack = navigationStack
    /\ r.selectedIndex = selectedIndex

\* C5: with no modal open, an up key at selectedIndex 0 of a non-empty list fails
\* with the feedback "At top", a back key at an empty navigationStack fails with
\* the feedback "At root", and neither changes navigationStack or selectedIndex.
C5_BoundaryMovesFail ==
    modalState.type = "none" =>
        /\ (getCurrentList(S) # <<>> /\ selectedIndex = 0) =>
              \A key \in UpKeys :
                  LET r == handleKeyPress(S, key, "t1") IN
                  /\ ~moveUp(S).success
                  /\ r.feedbackMessage = "At top"
                  /\ SamePosition(r)
        /\ navigationStack = <<>> =>
              \A key \in BackKeys :
                  LET r == handleKeyPress(S, key, "t1") IN
                  /\ ~goBack(S).success
                  /\ r.feedbackMessage = "At root"
                  /\ SamePosition(r)

\* up was pressed on the first task of a list dived into
C5_Witness ==
    /\ feedbackMessage = "At top"
    /\ timers = <<"At top">>
    /\ navHist = <<>>
    /\ navigationStack # <<>>
    /\ selectedIndex = 0

\* the last two key presses were navigation operations that succeeded
LastTwoWere(first, second) ==
    /\ Len(navHist) = 2
    /\ navHist[1].op = first
    /\ navHist[2].op = second

\* C6: when moveDown succeeded and the moveUp after it succeeded, selectedIndex
\* is what it was before the two moves and navigationStack is unchanged.
C6_DownThenUp ==
    LastTwoWere("moveDown", "moveUp") =>
        /\ selectedIndex = navHist[1].selectedIndex
        /\ navigationStack = navHist[1].navigationStack

C6_Witness ==
    /\ LastTwoWere("moveDown", "moveUp")
    /\ navHist[2].selectedIndex = 1
    /\ selectedIndex = 0

\* C7: when diveIn on a selected node was followed by goBack, navigationStack is
\* what it was before the dive and selectedIndex is 0, whatever it was before.
C7_DiveThenBack ==
    LastTwoWere("diveIn", "goBack") =>
        /\ navigationStack = navHist[1].navigationStack
        /\ selectedIndex = 0

\* the dive was made from the second task of the list
C7_Witness ==
    /\ LastTwoWere("diveIn", "goBack")
    /\ navHist[1].selectedIndex = 1
    /\ navigationStack = navHist[1].navigationStack
    /\ selectedIndex = 0

\* the selection the rule gives: one up when the deleted item was at or before a
\* selection that is not 0, then into [0, len-1] of the new list, 0 when empty
AfterDelete(sel, deletedIndex, len) ==
    LET moved == IF deletedIndex <= sel /\ sel > 0 THEN sel - 1 ELSE sel IN
    IF len = 0 THEN 0 ELSE IF moved > len - 1 THEN len - 1 ELSE moved

\* the state once the item at deletedIndex has left the list in view
Removed(deletedIndex) ==
    [S EXCEPT !.tree = deleteNode(tree, getParentForNewItem(S),
                                  getCurrentList(S)[deletedIndex + 1]).tree]

\* C8: adjustSelectionAfterDelete(deletedIndex), applied once the item at
\* deletedIndex has left the list in view, moves selectedIndex one up when
\* deletedIndex <= selectedIndex and selectedIndex > 0 and then clamps it into
\* [0, length-1] of the new list (0 when empty); confirming a Delete modal applies
\* it with the index of the task deleted, so that deleting Z of [X,Y,Z] at
\* selectedIndex 2 leaves selectedIndex 1.
C8_SelectionAfterDelete ==
    LET list == getCurrentList(S) IN
    /\ \A deletedIndex \in 0..(Len(list) - 1) :
          LET removed == Removed(deletedIndex) IN
          /\ getCurrentList(removed) = RemoveAt(list, deletedIndex + 1)
          /\ adjustSelectionAfterDelete(removed, deletedIndex).selectedIndex
                = AfterDelete(selectedIndex, deletedIndex, Len(list) - 1)
    /\ (modalState.type = "delete" /\ modalState.selectedButton = 0 /\ list # <<>>) =>
          \A key \in {KeyReturn, KeyEnter} :
              LET r == handleKeyPress(S, key, "t1") IN
              /\ getCurrentList(r) = RemoveAt(list, selectedIndex + 1)
              /\ r.selectedIndex = AfterDelete(selectedIndex, selectedIndex, Len(list) - 1)
              /\ (Len(list) = 3 /\ selectedIndex = 2) => r.selectedIndex = 1

\* the third of three tasks of the root was selected and deleted
C8_Witness ==
    /\ tasks # <<>>
    /\ tasks[1].op = "delete"
    /\ navigationStack = <<>>
    /\ nextId > 3
    /\ tree[RootId].children = <<1, 2>>
    /\ selectedIndex = 1

\* the keys bound to an action when no modal is open
ActionKeys == {Char("n"), Char("e"), Char("d"), Char("x"), Char("q")}

NoQuit(r) ==
    /\ r.isRunning = isRunning
    /\ r.rendererStopped = rendererStopped
    /\ \A i \in 1..Len(r.tasks) : r.tasks[i].op = "quit" => i <= Len(tasks)

\* what a key press leaves alone when all it does is done by the modal
ModalOnly(key) ==
    LET r == handleKeyPress(S, key, "t1") IN
    /\ r = handleModalKeyPress(S, key)
    /\ SamePosition(r)
    /\ r.tree = tree
    /\ NoQuit(r)

\* C9 as stated: while a modal is open, the keys of up, down, dive and back and
\* the keys n, e, d, x, q change neither navigationStack, selectedIndex nor the
\* tree, and do not quit.
C9_AsStated ==
    modalState.type # "none" =>
        \A key \in UpKeys \cup DownKeys \cup DiveKeys \cup BackKeys \cup ActionKeys :
            ModalOnly(key)

\* C9: while a modal is open every key press is handled by handleModalKeyPress
\* alone, and the keys of up, down and back, the dive keys other than Return and
\* Enter, and the keys n, e, d, x, q change neither navigationStack,
\* selectedIndex nor the tree, and do not quit.
C9_ModalKeysInert ==
    modalState.type # "none" =>
        /\ \A key \in DiveKeys : handleKeyPress(S, key, "t1") = handleModalKeyPress(S, key)
        /\ \A key \in UpKeys \cup DownKeys \cup (DiveKeys \ {KeyReturn, KeyEnter})
                         \cup BackKeys \cup ActionKeys :
              ModalOnly(key)

\* x was typed into the New modal opened on the second task: the second task is
\* still selected and no Delete modal took its place
C9_Witness ==
    /\ modalState.type = "new"
    /\ modalState.inputValue = <<"x">>
    /\ tasks = <<>>
    /\ selectedIndex = 1
    /\ DOMAIN tree = DOMAIN TwoChildren

\* C10: Return or Enter on the primary button of a New or Edit modal whose input
\* has a trimmed length of 0 or of more than 200 sets the modal's error message
\* and leaves the modal open with its input as it was; the tree is not changed
\* and no save is started.
C10_InvalidTitleKeepsModal ==
    LET length == Len(Trim(modalState.inputValue)) IN
    (/\ modalState.type \in {"new", "edit"}
     /\ modalState.selectedButton = 0
     /\ (length = 0 \/ length > MaxTitleLen)) =>
        \A key \in {KeyReturn, KeyEnter} :
            LET r == handleKeyPress(S, key, "t1") IN
            /\ r.modalState =
                  [modalState EXCEPT !.errorMessage = IF length = 0 THEN ErrEmpty ELSE ErrLong]
            /\ r.tree = tree
            /\ r.nextId = nextId
            /\ r.tasks = tasks
            /\ r.tmpFile = tmpFile
            /\ r.projectFile = projectFile

\* the Edit modal of the task with the longest title, one character typed and
\* submitted
C10_Witness ==
    /\ modalState.type = "edit"
    /\ modalState.selectedButton = 0
    /\ Len(Trim(modalState.inputValue)) = MaxTitleLen + 1
    /\ modalState.errorMessage = ErrLong
    /\ tree[1].title = LongTitle
    /\ tasks = <<>>

-----------------------------------------------------------------------------
(* Cancelling a modal *)

\* the keys that cancel the modal that is open
CancelKeys ==
    {KeyEscape} \cup (IF modalState.selectedButton = 1 THEN {KeyReturn, KeyEnter} ELSE {})

\* C11: Escape in a New, Edit or Delete modal, and Return or Enter while the
\* cancel button is selected, close the modal and change neither the tree,
\* navigationStack nor selectedIndex and start no save, whatever the input holds.
C11_CancelNoMutation ==
    modalState.type \in {"new", "edit", "delete"} =>
        \A key \in CancelKeys :
            LET r == handleKeyPress(S, key, "t1") IN
            /\ r.modalState = NoModal
            /\ r.tree = tree
            /\ r.nextId = nextId
            /\ SamePosition(r)
            /\ r.tasks = tasks
            /\ r.tmpFile = tmpFile
            /\ r.projectFile = projectFile

\* a modal was cancelled while the save of its submission was still pending: the
\* task is retitled, the modal is gone and the one save goes on
C11_Witness ==
    /\ modalState.type = "none"
    /\ Len(tasks) = 1
    /\ tasks[1].op = "edit"
    /\ tasks[1].pc = "mkdir"
    /\ tree[1].title = <<"n">>

-----------------------------------------------------------------------------
(* Key presses and saves that overlap *)

\* C12 as stated: no key press is handled while the operation an earlier key
\* press started, its save included, has not finished.
C12_AsStated == [][tasks # <<>> => ~KeyPress(EnvOverlap)]_vars

\* C13 as stated: at most one save of the project is in progress at any time.
C13_AsStated == Len(tasks) <= 1

\* C14 as stated: a feedback message is cleared only by the expiry timer scheduled
\* when it was shown, the last one scheduled, also when an earlier message had
\* the same text.
C14_AsStated == [][(feedbackMessage # NULL /\ feedbackMessage' = NULL) => Len(timers) = 1]_vars

-----------------------------------------------------------------------------
(* Mutations and their saves *)

SuccessMessages == {"Created task", "Updated", "Deleted", "Done", "Marked open"}

\* the step shows feedback: showFeedback has scheduled an expiry
ShowsFeedback == Len(timers') > Len(timers)

\* C15: every step that changes the tree (add, edit, delete, toggle) starts a save
\* of the project in the same handler, after the change and before any
\* feedback of the operation; the feedback of success is shown only in the step
\* in which that save has settled.
C15_SaveFollowsMutation ==
    [][/\ tree' # tree =>
            /\ Len(tasks') = Len(tasks) + 1
            /\ tasks'[Len(tasks')].op \in {"new", "edit", "delete", "toggle"}
            /\ tasks'[Len(tasks')].pc = "mkdir"
            /\ ~ShowsFeedback
       /\ (ShowsFeedback /\ feedbackMessage' \in SuccessMessages) =>
            /\ Len(tasks') = Len(tasks) - 1
            /\ tree' = tree]_vars

\* a task was deleted, its save has settled and "Deleted" is shown
C15_Witness ==
    /\ feedbackMessage = "Deleted"
    /\ tasks = <<>>
    /\ Len(tree[RootId].children) = 1
    /\ projectFile.tree = tree

\* the one pending save settles as failed: mkdir failed, or the temp file was
\* removed after a failed write or rename
FailedSettle ==
    /\ Len(tasks) = 1
    /\ tasks' = <<>>
    /\ tasks[1].pc \in {"mkdir", "rm"}
    /\ tasks[1].op # "quit"

\* C16 as stated: when the save after an add, edit, delete or toggle fails, the
\* feedback shown once the operation has finished is "Failed to save".
C16_AsStated == [][FailedSettle => feedbackMessage' = "Failed to save"]_vars

\* C17: when the save after a mutation fails, the tree keeps the mutation, the
\* handler runs on to its end ("Failed to save" and its own feedback are
\* scheduled), the session keeps running and key presses are still handled.
C17_FailedSaveKeepsSession ==
    [][FailedSettle =>
        /\ tree' = tree
        /\ nextId' = nextId
        /\ projectFile' = projectFile
        /\ Len(timers') = Len(timers) + 2
        /\ timers'[Len(timers) + 1] = "Failed to save"
        /\ isRunning' /\ ~rendererStopped']_vars

\* the save of an added task failed: the task is in the tree and not in the file,
\* and the n pressed after it has opened the New modal again
C17_Witness ==
    /\ tasks = <<>>
    /\ timers = <<"Failed to save", "Created task">>
    /\ 3 \in DOMAIN tree
    /\ 3 \notin DOMAIN projectFile.tree
    /\ modalState.type = "new"
    /\ modalState.inputValue = <<>>

\* C18: on quit the controller always attempts a final save, then restores the
\* terminal and ends the session: q starts a save and nothing else; when that
\* save settles, saved or failed, renderer.stop() throwing or not, the terminal
\* is restored and isRunning is false; and start() resolves in the end
QuitPending == \E i \in 1..Len(tasks) : tasks[i].op = "quit"

QuitSettles ==
    /\ QuitPending
    /\ Len(tasks') < Len(tasks)
    /\ \E i \in 1..Len(tasks) : tasks[i].op = "quit" /\ tasks' = RemoveAt(tasks, i)

QuitSteps ==
    /\ (isRunning /\ ~isRunning') =>
            (QuitSettles /\ terminalRestored' /\ ~startResolved')
    /\ QuitSettles => (~isRunning' /\ terminalRestored')
    /\ (~QuitPending /\ QuitPending') =>
            (/\ tasks' = Append(tasks, [op |-> "quit", pc |-> "mkdir",
                                         wasDone |-> FALSE, json |-> <<>>])
             /\ isRunning' /\ ~terminalRestored' /\ tree' = tree)
    /\ startResolved' => (~isRunning /\ terminalRestored')

C18_QuitSavesRestoresEnds == [][QuitSteps]_vars /\ (QuitPending ~> startResolved)

C18_Witness ==
    /\ startResolved /\ terminalRestored /\ ~isRunning
    /\ ~rendererStopped
    /\ feedbackMessage = "Failed to save"
    /\ projectFile.modified_at = "t1"

\* C19: at every step of saveProject, the failing ones included, the project
\* file holds the complete previous document or the complete new one: it
\* changes only in the rename of a save, to the complete document that save
\* wrote, and that save then succeeds; a save that fails leaves it as it was
Renames(i) ==
    /\ tasks[i].pc = "rename"
    /\ tasks' = RemoveAt(tasks, i)
    /\ projectFile' = tasks[i].json[1]
    /\ ~ShowsFeedback \/ feedbackMessage' # "Failed to save"

SaveSteps ==
    /\ projectFile'.complete
    /\ projectFile' # projectFile => \E i \in 1..Len(tasks) : Renames(i)

C19_AsStated == [][SaveSteps]_vars

\* C20 as stated: createNode, addChildNode and editNodeTitle, called with a
\* title whose trimmed length is 0 or exceeds 200, fail and leave the target
\* node unchanged
TitleOps == {"addTitled", "editTitled"}

ValidTitles == {t \in TitleChoices : Len(Trim(t)) >= 1 /\ Len(Trim(t)) <= MaxTitleLen}

C21_TitlesTrimmedInRange ==
    /\ \A n \in DOMAIN tree :
          /\ tree[n].title = Trim(tree[n].title)
          /\ Len(tree[n].title) >= 1
          /\ Len(tree[n].title) <= MaxTitleLen
    /\ \A t \in ValidTitles : createNode(t).title = Trim(t)

C21_Witness ==
    /\ Len(tasks) = 1 /\ tasks[1].op = "edit"
    /\ modalState.inputValue = LongTitle \o <<" ">>
    /\ tree[1].title = LongTitle
    /\ 3 \in DOMAIN tree

\* C22: after any sequence of the tree operations on a new project, every node
\* has completed_at set exactly when its status is done
C22_CompletedAtIffDone ==
    \A n \in DOMAIN tree : (tree[n].completed_at # NULL) <=> (tree[n].status = "done")

C22_Witness ==
    /\ opLog.op = "markOpen"
    /\ tree[opLog.node].status = "open" /\ tree[opLog.node].completed_at = NULL
    /\ \E c \in DOMAIN tree :
          /\ IsChildOf(tree, opLog.node, c)
          /\ tree[c].status = "done" /\ tree[c].completed_at = "t2"

\* C23: for every node n reachable from the root, getNodePath(root, n) starts at
\* the root, ends with n, and its second-to-last element (if any) is
\* findParent(root, n); findNode(root, n) is n; findParent is absent for the
\* root and for an unknown id
UnknownIds == (0..(MaxId + 1)) \ DOMAIN tree

C23_PathParentConsistent ==
    /\ \A n \in Reach(tree, RootId) :
          LET path == getNodePath(tree, RootId, n) IN
          /\ path # NoPath
          /\ path[1] = RootId
          /\ path[Len(path)] = n
          /\ Len(path) >= 2 => path[Len(path) - 1] = findParent(tree, RootId, n)
          /\ Len(path) >= 2 => IsChildOf(tree, path[Len(path) - 1], n)
          /\ findNode(tree, RootId, n) = n
    /\ findParent(tree, RootId, RootId) = NoNode
    /\ \A u \in UnknownIds : findParent(tree, RootId, u) = NoNode

C23_Witness ==
    /\ \E n \in DOMAIN tree :
          /\ Len(getNodePath(tree, RootId, n)) = 3
          /\ findParent(tree, RootId, n) \notin {RootId, NoNode}
    /\ Len(tree[RootId].children) = 2
    /\ UnknownIds # {}

\* C24: countDescendants(node) is the number of its children plus the sum of
\* countDescendants over them, which is the number of nodes in the node's
\* subtree minus one; a node without children gives 0
RECURSIVE SumOver(_, _)
SumOver(t, ids) ==
    IF ids = {} THEN 0
    ELSE LET c == CHOOSE x \in ids : TRUE IN
         countDescendants(t, c) + SumOver(t, ids \ {c})

ChildrenOf(t, n) == {c \in DOMAIN t : IsChildOf(t, n, c)}

C24_CountDescendants ==
    \A n \in DOMAIN tree :
        /\ countDescendants(tree, n) = Len(tree[n].children) + SumOver(tree, ChildrenOf(tree, n))
        /\ countDescendants(tree, n) = Cardinality(SubtreeOf(tree, n)) - 1
        /\ tree[n].children = <<>> => countDescendants(tree, n) = 0

C24_Witness ==
    /\ countDescendants(tree, RootId) = 3
    /\ Len(tree[RootId].children) = 2
    /\ \E c \in DOMAIN tree : c # RootId /\ countDescendants(tree, c) = 1

\* C25: for a leaf node in either status, toggleStatus applied twice restores
\* the node's status (and leaves every other node as it was)
Leaves(t) == {n \in DOMAIN t : t[n].children = <<>>}

C25_ToggleTwiceRestores ==
    \A n \in Leaves(tree), first \in Times, second \in Times :
        LET once == toggleNodeStatus(tree, n, first)
            twice == toggleNodeStatus(once, n, second)
        IN
        /\ once[n].status # tree[n].status
        /\ twice[n].status = tree[n].status
        /\ \A other \in DOMAIN tree \ {n} : twice[other] = tree[other]

C25_Witness ==
    /\ opLog.op = "toggle"
    /\ opLog.node \in Leaves(tree)
    /\ tree[opLog.node].status = "open"
    /\ \E n \in Leaves(tree) : tree[n].status = "done"

\* C26: after any sequence of key presses the project still has its one root:
\* the root is in the tree, is the child of no node, every node hangs below
\* it, it is never a level of the navigation stack, and no key press removes it
SessionKeys ==
    {KeyUp, KeyDown, KeyLeft, KeyRight, KeyReturn, KeyEnter, KeyEscape, KeyTab,
     KeyBackspace, KeySpace, KeyHelp, Char("n"), Char("e"), Char("d"), Char("x")}

HasItsRoot(t) ==
    /\ RootId \in DOMAIN t
    /\ \A n \in DOMAIN t : ~IsChildOf(t, n, RootId)
    /\ DOMAIN t = Reach(t, RootId)

Range(seq) == {seq[i] : i \in 1..Len(seq)}

OrderKept(old, new) ==
    \E k \in 0..Len(new) :
        /\ SubSeq(new, 1, k) = SelectSeq(old, LAMBDA c : c \in Range(new))
        /\ \A i \in (k + 1)..Len(new) : new[i] \notin Range(old)

InOrderOfCreation(t) ==
    \A p \in DOMAIN t : \A i, j \in 1..Len(t[p].children) :
        i < j => t[p].children[i] < t[p].children[j]

C27_InsertionOrder ==
    [][/\ \A p \in DOMAIN tree \cap DOMAIN tree' :
             OrderKept(tree[p].children, tree'[p].children)
       /\ InOrderOfCreation(tree')
       /\ opLog'.op = "addChild" =>
             tree'[opLog'.node].children = Append(tree[opLog'.node].children, opLog'.arg)]_vars

C27_Witness ==
    /\ opLog.op = "delete" /\ opLog.ret
    /\ tree[RootId].children = <<1, 3>>

\* C28: the completion marker of a node is "done" exactly when the node is done
\* and it has no children or all its descendants are done, "done, partial"
\* exactly when it is done and some descendant is not, and empty when the
\* node is open, whatever the status of its descendants
Descendants(t, n) == SubtreeOf(t, n) \ {n}

C28_CompletionMarker ==
    \A n \in DOMAIN tree :
        LET marker == getStatusDisplay(tree, n)
            isDone == tree[n].status = "done"
            allDone == \A d \in Descendants(tree, n) : tree[d].status = "done"
        IN
        /\ marker = " (done)" <=> (isDone /\ (tree[n].children = <<>> \/ allDone))
        /\ marker = " (done, partial)" <=> (isDone /\ ~allDone)
        /\ marker = "" <=> ~isDone

C28_Witness ==
    /\ \E n \in DOMAIN tree :
          /\ getStatusDisplay(tree, n) = " (done, partial)"
          /\ allChildrenDone(tree, n)
    /\ \E n \in DOMAIN tree :
          /\ getStatusDisplay(tree, n) = ""
          /\ Descendants(tree, n) # {}
          /\ \A d \in Descendants(tree, n) : tree[d].status = "done"

\* C29 as stated: in a New or Edit modal a typed printable character is appended
\* to the buffer and Backspace removes the last character, so typing any
\* printable character and then Backspace restores the buffer
PrintableKeys ==
    {Char("n"), Char("q"), Char("x"), Char("0"), Char("-"), Char("_"), KeySpace,
     KeyShiftA, KeyBang, KeyHelp}

InInputModal == modalState.type \in {"new", "edit"}

Typed(key) == handleKeyPress(S, key, "t1")

ThenBackspace(key) == handleKeyPress(Typed(key), KeyBackspace, "t1")

C29_AsStated ==
    InInputModal =>
        \A key \in PrintableKeys :
            /\ Typed(key).modalState.inputValue =
                   Append(modalState.inputValue, key.sequence[1])
            /\ ThenBackspace(key).modalState.inputValue = modalState.inputValue

\* C29: in a New or Edit modal a typed letter, digit, space, hyphen or underscore
\* is appended to the buffer, a capital as its lower case, and then Backspace
\* restores the buffer; any other printable character leaves the buffer as it
\* is and sets the error message, and then Backspace removes the last
\* character the buffer had; Backspace on an empty buffer leaves it empty
AllowedChars == {"n", "q", "x", "A", "0", "-", "_", " "}

LowerCase(c) == IF c = "A" THEN "a" ELSE c

ButLast(seq) == IF seq = <<>> THEN <<>> ELSE SubSeq(seq, 1, Len(seq) - 1)

C29_AllowedCharsAppended ==
    InInputModal =>
        /\ \A key \in PrintableKeys :
              LET c == key.sequence[1] IN
              IF c \in AllowedChars
              THEN /\ Typed(key).modalState.inputValue =
                         Append(modalState.inputValue, LowerCase(c))
                   /\ Typed(key).modalState.errorMessage = NULL
                   /\ ThenBackspace(key).modalState.inputValue = modalState.inputValue
              ELSE /\ Typed(key).modalState.inputValue = modalState.inputValue
                   /\ Typed(key).modalState.errorMessage = ErrChars
                   /\ ThenBackspace(key).modalState.inputValue =
                         ButLast(modalState.inputValue)
        /\ handleKeyPress(S, KeyBackspace, "t1").modalState.inputValue =
              ButLast(modalState.inputValue)
        /\ \A key \in PrintableKeys \cup {KeyBackspace} :
              Typed(key).modalState.type = modalState.type /\ Typed(key).tree = tree

C29_Witness ==
    /\ modalState.type = "edit"
    /\ modalState.inputValue = LongTitle
    /\ modalState.errorMessage = ErrChars

\* C30: the help modal closes on any key press and performs no mutation:
\* whatever the key (Enter, n, x, d, q included) the modal is closed, the tree,
\* navigationStack and selectedIndex are unchanged, no save is started and
\* the session does not quit
AnyKeys == SessionKeys \cup {Char("q"), Char("h"), Char("j"), Char("k"), Char("l"),
                             Char("r"), KeyShiftA, KeyBang}

C30_HelpClosesOnAnyKey ==
    modalState.type = "help" =>
        \A key \in AnyKeys :
            LET r == handleKeyPress(S, key, "t1") IN
            /\ r.modalState = NoModal
            /\ r.tree = tree /\ r.nextId = nextId
            /\ SamePosition(r)
            /\ r.tasks = tasks
            /\ r.isRunning /\ ~r.rendererStopped /\ ~r.terminalRestored
            /\ r.projectFile = projectFile /\ r.tmpFile = tmpFile
            /\ r.timers = timers /\ r.feedbackMessage = feedbackMessage

C30_Witness ==
    /\ modalState.type = "help"
    /\ navigationStack # <<>>
    /\ feedbackMessage = "At bottom"

\* C31 as stated: for every name that validateProjectName accepts, `dft <name>`
\* is dispatched as `dft open <name>`
C31_AsStated ==
    (Len(cli.argv) = 1 /\ validateProjectName(cli.argv[1]).isValid) =>
        (cli.command = "open" /\ cli.args = cli.argv)

\* the document's tree as the schema describes it: every node an object with an
\* id in the identifier format, a title of 1 to 200 characters, a status of open
\* or done, an array of children and well-formed timestamps
RECURSIVE WellFormedNode(_)
WellFormedNode(node) ==
    /\ node.kind = "object"
    /\ isString(get(node, "id")) /\ isUuid(get(node, "id").chars)
    /\ isString(get(node, "title"))
    /\ Len(get(node, "title").chars) \in 1..MaxTitleLen
    /\ get(node, "status") \in {StatusOpen, StatusDone}
    /\ get(node, "children").kind = "array"
    /\ isString(get(node, "created_at")) /\ isIsoTime(get(node, "created_at").chars)
    /\ \/ get(node, "completed_at") = JNull
       \/ isString(get(node, "completed_at")) /\ isIsoTime(get(node, "completed_at").chars)
    /\ \A i \in 1..Len(get(node, "children").items) :
          WellFormedNode(get(node, "children").items[i])

\* C32 as stated: loadProject rejects every document in which a node at any depth
\* is not an object, has an id not in the identifier format, a title outside 1 to
\* 200 characters, a status outside {open, done}, children that are not an array,
\* or a malformed timestamp
C32_AsStated ==
    (loadLog.file.json /\ ~WellFormedNode(get(loadLog.file.value, "root"))) =>
        (~loadLog.result.ok /\ loadLog.result.error = ErrInvalidStructure)

\* C33: after a dive into a selected node L without children the list in view is
\* empty, and a New submission with a valid title that follows adds the new node
\* as the only child of L, OPEN, and not as a child of the root or of L's parent.
C33_NewInsideLeaf ==
    LET L == getSelectedNode(S)
        here == navigationStack[Len(navigationStack)]
    IN
    /\ (modalState.type = "none" /\ L # NoNode /\ tree[L].children = <<>>) =>
          \A key \in DiveKeys :
              LET r == handleKeyPress(S, key, "t1") IN
              /\ r.navigationStack = Append(navigationStack, L)
              /\ getCurrentList(r) = <<>>
    /\ (/\ modalState.type = "new"
        /\ modalState.selectedButton = 0
        /\ navigationStack # <<>>
        /\ tree[here].children = <<>>
        /\ validateTitle(modalState.inputValue).isValid) =>
          \A key \in {KeyReturn, KeyEnter} :
              LET r == handleKeyPress(S, key, "t1") IN
              /\ DOMAIN r.tree = DOMAIN tree \cup {nextId}
              /\ r.tree[here].children = <<nextId>>
              /\ r.tree[nextId].status = "open"
              /\ r.tree[nextId].children = <<>>
              /\ \A n \in DOMAIN tree \ {here} : r.tree[n] = tree[n]

\* task 1 had no subtasks, was dived into, and a task was created there
C33_Witness ==
    /\ navigationStack = <<1>>
    /\ tree[RootId].children = <<1, 2>>
    /\ tree[1].children = <<3>>
    /\ tree[3].status = "open"
    /\ tasks # <<>>
    /\ tasks[Len(tasks)].op = "new"

\* the keys that act on the selected node when no modal is open
SelectionKeys == DiveKeys \cup {Char("e"), Char("x"), Char("d")}

\* C34: when the list in view is empty, diveIn, edit (e), delete (x) and
\* toggle-done (d) each fail with the feedback "Nothing selected": no modal opens,
\* the tree, the ancestor stack and selectedIndex are unchanged and no save is
\* attempted.
C34_NothingSelected ==
    (modalState.type = "none" /\ getCurrentList(S) = <<>>) =>
        \A key \in SelectionKeys : \A now \in {"t1", "t2"} :
            LET r == handleKeyPress(S, key, now) IN
            /\ r.feedbackMessage = "Nothing selected"
            /\ r.timers = Append(timers, "Nothing selected")
            /\ r.modalState.type = "none"
            /\ r.tree = tree
            /\ r.nextId = nextId
            /\ r.navigationStack = navigationStack
            /\ r.selectedIndex = selectedIndex
            /\ r.tasks = tasks
            /\ r.tmpFile = tmpFile
            /\ r.projectFile = projectFile

\* a key was pressed in the empty list of a task without subtasks
C34_Witness ==
    /\ navigationStack # <<>>
    /\ getCurrentList(S) = <<>>
    /\ modalState.type = "none"
    /\ feedbackMessage = "Nothing selected"
    /\ tasks = <<>>

\* C35: every feedback message is eventually cleared.  A message on the screen is
\* the one shown last and its timer is pending; while timers are pending the
\* oldest one fires unless another message is shown first; so when a message has
\* been shown and no later one is, the timers run out and the message is empty.
C35_FeedbackCleared ==
    /\ [](feedbackMessage # NULL =>
            (timers # <<>> /\ timers[Len(timers)] = feedbackMessage))
    /\ \A n \in 1..MaxOverlap :
          (Len(timers) = n) ~> (Len(timers) < n \/ Len(timers) > n)

\* a message is on the screen while the timer of an earlier, other message is pending
C35_Witness ==
    /\ Len(timers) = 2
    /\ timers[1] # timers[2]
    /\ feedbackMessage = timers[2]

\* the delete modal of the focusing session is open on its confirm button, on a
\* node below the root, and no save is pending
ConfirmingDelete ==
    /\ modalState.type = "delete"
    /\ modalState.selectedButton = 0
    /\ Len(navigationStack) > 1
    /\ tasks = <<>>

OnlyRemoved(t, t2, sel) ==
    /\ DOMAIN t2 = DOMAIN t \ Reach(t, sel)
    /\ \A n \in DOMAIN t2 : t2[n] = [t[n] EXCEPT !.children = SelectSeq(@, LAMBDA c : c # sel)]

\* a delete has been confirmed and its handler has not ended
DeletePending == \E i \in 1..Len(tasks) : tasks[i].op = "delete"

\* C37 as stated: between the opening of the delete modal and the end of the
\* delete, whatever keys are pressed, the tree changes at most once, by the
\* removal of the node that was selected when the modal opened with its subtree;
\* every other node is unchanged.
C37_AsStated ==
    [][modalState.type = "delete" =>
          IF DeletePending THEN tree' = tree
          ELSE tree' = tree \/ OnlyRemoved(tree, tree', getSelectedNode(S))]_vars

\* a node leaves the tree in this step
NodeRemoved == DOMAIN tree' # DOMAIN tree /\ DOMAIN tree' \subseteq DOMAIN tree

\* the delete modal is open on its confirm button
OnConfirm(modal) == modal.type = "delete" /\ modal.selectedButton = 0

\* C38: the delete modal opens with the cancel button selected: x and then
\* Return or Enter closes the modal and deletes nothing; a node is deleted only
\* from a delete modal on its confirm button, which only Tab selects.
C38_DeleteNeedsTab ==
    [][/\ (modalState.type = "none" /\ getSelectedNode(S) # NoNode) =>
             LET opened == handleKeyPress(S, Char("x"), "t1") IN
             /\ opened.modalState.type = "delete"
             /\ opened.modalState.selectedButton = 1
             /\ \A key \in {KeyReturn, KeyEnter} :
                   LET r == handleKeyPress(opened, key, "t1") IN
                   /\ r.modalState = NoModal
                   /\ r.tree = tree
                   /\ r.tasks = tasks
                   /\ SamePosition(r)
       /\ NodeRemoved => OnConfirm(modalState)
       /\ (OnConfirm(modalState') /\ ~OnConfirm(modalState)) =>
             (/\ modalState.type = "delete"
              /\ modalState.selectedButton = 1
              /\ S' = handleKeyPress(S, KeyTab, "t1"))]_vars

\* the first task was deleted: its delete modal is still on the confirm button
C38_Witness ==
    /\ OnConfirm(modalState)
    /\ tree[RootId].children = <<2>>
    /\ tasks # <<>>
    /\ tasks[Len(tasks)].op = "delete"

\* the ancestor stack is a path of the tree that starts below the root
StackIsPath(t, stack) ==
    \A i \in 1..Len(stack) :
        /\ stack[i] \in DOMAIN t
        /\ IsChildOf(t, IF i = 1 THEN RootId ELSE stack[i - 1], stack[i])

\* C39: in the list-cursor session every id on the ancestor stack resolves to a
\* node of the tree, the first entry is a child of the root and each later entry
\* is a child of the entry before it; no delete removes a node that is on the
\* stack.
C39_StackIsPath ==
    /\ [](StackIsPath(tree, navigationStack))
    /\ [][NodeRemoved =>
            /\ navigationStack' = navigationStack
            /\ \A i \in 1..Len(navigationStack) :
                  /\ navigationStack[i] \in DOMAIN tree'
                  /\ tree'[navigationStack[i]].title = tree[navigationStack[i]].title]_vars

\* inside the first task, where a task was created and then deleted
C39_Witness ==
    /\ navigationStack = <<1>>
    /\ nextId = 4
    /\ 3 \notin DOMAIN tree
    /\ tree[RootId].children = <<1, 2>>
    /\ tree[1].children = <<>>

\* the one save still pending completes with success: every save started has
\* completed, the last of them reported success and nothing was changed after it
LastSaveSucceeds ==
    /\ Len(tasks) = 1
    /\ tasks' = <<>>
    /\ tasks[1].pc = "rename"
    /\ ~ShowsFeedback \/ feedbackMessage' # "Failed to save"
    /\ tree' = tree

\* C40 as stated: when every save started in a session has completed, the last
\* one reported success and no mutation followed it, the project file holds the
\* project as it is in memory, whatever the interleaving of the saves' steps.
C40_AsStated == [][LastSaveSucceeds => projectFile'.tree = tree']_vars
====
